---- MODULE Spec2Model ----
(***************************************************************************)
(* The capital ledger of the trading swarm (core/portfolio.py) and the     *)
(* trade attempts that drive it.                                           *)
(*                                                                         *)
(* Quantities.  Cash amounts and share counts are integers counted in     *)
(* units of the ledger's numeric tolerance (1e-9 dollars, 1e-9 shares),    *)
(* so that the tolerance itself is the integer Tol.  A price is a rational *)
(* <<num, den>> dollars per share; the prices drawn below all have a       *)
(* numerator that divides amount * den, so amount / price is exact.        *)
(***************************************************************************)
EXTENDS Integers, Sequences, FiniteSets, TLC

\* ---------------------------------------------------------------- bounds

\* API calls made in one behaviour
MaxOps == 3
\* the starting cash of the ledger, and the largest requested allocation
MaxCash == 3
\* the swarm: rounds in one behaviour, and proposals in one round
SwarmRounds == 1
\* the swarm loop: max_iterations
SwarmIterations == 3
MaxProposals == 3
\* the loop of an agent: max_iterations, and the balance below which
\* should_continue() is false
MaxIterations == 2
MinBalance == 1
\* the loop of an agent: the orders posted to the sink are counted up to here
MaxOrders == 3
\* order books: the levels on one side
MaxLevels == 2
\* the consensus stage: calls made in one behaviour
ConsensusOps == 2
\* the largest cash amount of a trade
MaxAmount == 2
\* the reference scenario: units of cash (and of shares) in one dollar (one share)
Dollar == 100
\* the reference scenario: calls made in one behaviour
ScenarioOps == 5
\* the market cache: settings.cache_ttl, in ticks of the clock
CacheTtl == 1
\* the market cache: the last tick of the clock
MaxTime == 3

Agents == {"a1", "a2"}
Tokens == {"t1", "t2"}
Threads == {1, 2}

\* side strings as callers pass them: upper case, lower case, and one that is no side
Sides == {"BUY", "sell", "HOLD"}

\* amounts of a trade: negative, zero and positive
Amounts == (-1)..MaxAmount
\* requested allocations: negative, zero, less than the treasury, all of it, more
Requests == {-1, 0, MaxCash - 1, MaxCash, MaxCash + 1}
\* prices <<num, den>>: zero, one quarter and one half
Prices == {<<0, 1>>, <<1, 4>>, <<1, 2>>}
\* share counts of a reconciled snapshot
SnapshotShares == {-1, 3}

\* ------------------------------------------------------------- constants

\* the 1e-9 tolerance of validate_trade, the unit of every quantity here
Tol == 1

\* ----------------------------------------------------------------- state

VARIABLES
    starting_cash,      \* Portfolio.starting_cash
    cash_reserve,       \* Portfolio._cash_reserve, the treasury
    agent_balances,     \* Portfolio._agent_balances: dict, registered name -> cash
    agent_positions,    \* Portfolio._agent_positions: agent -> token -> shares (default 0)
    positions,          \* Portfolio._positions: token -> aggregate shares (default 0)
    pend,               \* per thread: <<>>, or <<t>> for a trade t past validation, before apply
    allocated,          \* history: what the first register_agent of a name returned
    last,               \* history: the last call, its arguments, result and pre-state
    nops,               \* number of calls made
    budget,             \* number of calls a behaviour may make
    lock,               \* Portfolio._lock: the thread holding it, or NoThread
    pc,                 \* per thread: where it is inside an apply_trade call
    call,               \* per thread: the arguments of its apply_trade call
    reg,                \* per thread: the value it has read and not yet written back
    base,               \* history: the ledger when the first concurrent call began
    now,                \* time.time(), in ticks
    orderbook_cache,    \* MarketDataService._orderbook_cache: dict, token -> entry
    token_price_cache,  \* MarketDataService._token_price_cache: dict, token -> entry
    fresh,              \* history: per token, the last get_market_price that fetched a book
    listed,             \* history: the last non-empty result of get_active_markets
    mlast,              \* history: the last call of the market data service
    advisor,            \* whether an advisory model is configured
    vlast,              \* history: the last proposal put to the veto stage
    enabled,            \* HivemindCoordinator.enabled
    clast,              \* history: the last collaborative_decision call
    tools,              \* ToolRegistry._tools: dict, name -> tool, in insertion order
    tlast,              \* history: the last evaluate_all call
    tool_agent,         \* AgentTool._agent of one tool: none yet, or its current_balance
    evaluating,         \* per caller, where its AgentTool.evaluate stands and its locals
    current_balance,    \* BaseAgent.current_balance, per agent
    trades_made,        \* BaseAgent.trades_made, per agent
    trading_enabled,    \* BaseAgent.trading_enabled, per agent
    creds_error_emitted, \* BaseAgent._creds_error_emitted, per agent
    execution,          \* ExecutionService: trading_enabled and _creds_error_emitted
    creds_errors,       \* history: the missing-credentials errors logged by the process
    sink,               \* history: the orders posted to the order sink
    blast,              \* history: the last place_bet or place_order call
    slast,              \* history: the last execute_proposals call
    swarm,              \* swarm_loop: its iteration, whether it still runs, its last round
    run,                \* per agent, where BaseAgent.run stands and its locals
    stop_requested,     \* per agent, the stop flag request_stop sets
    futures,            \* AgentRunner._futures: per agent, no event, one clear, one set
    trace,              \* history: per agent, what the last steps of its loop did
    qlast               \* history: the last mid-price derived from a book

ledger == <<starting_cash, cash_reserve, agent_balances, agent_positions, positions>>
\* the lock and the threads inside apply_trade
callVars == <<lock, pc, call, reg, base>>
\* the ledger, its history and its threads
portfolioVars == <<starting_cash, cash_reserve, agent_balances, agent_positions, positions,
                   pend, allocated, last, nops, budget, callVars>>
\* the market data service and its history
marketVars == <<now, orderbook_cache, token_price_cache, fresh, listed, mlast>>
\* the arbitration layer and its history
vetoVars == <<advisor, vlast>>
\* the consensus stage and its history
consensusVars == <<enabled, clast>>
toolVars == <<tools, tlast, tool_agent, evaluating>>
execVars == <<current_balance, trades_made, trading_enabled, creds_error_emitted, execution,
              creds_errors, sink, blast>>
swarmVars == <<slast, swarm>>
loopVars == <<run, stop_requested, futures, trace>>
quoteVars == <<qlast>>
\* the services around the ledger, the market data and the veto stage
serviceVars == <<consensusVars, toolVars, execVars, swarmVars, loopVars, quoteVars>>
\* everything that no ledger call touches
outsideLedger == <<budget, callVars, marketVars, vetoVars, serviceVars>>
vars == <<starting_cash, cash_reserve, agent_balances, agent_positions, positions,
          pend, allocated, last, nops, outsideLedger>>

\* ------------------------------------------------------------ arithmetic

Min(a, b) == IF a <= b THEN a ELSE b
Max(a, b) == IF a >= b THEN a ELSE b

RECURSIVE SumOver(_, _)
SumOver(f, S) ==
    IF S = {} THEN 0
    ELSE LET x == CHOOSE y \in S : TRUE IN f[x] + SumOver(f, S \ {x})

\* str.upper() on the side strings
Upper(side) ==
    CASE side = "buy" -> "BUY"
      [] side = "sell" -> "SELL"
      [] side = "hold" -> "HOLD"
      [] OTHER -> side

\* mutant: the amount is multiplied by the price
Shares_Times(amount, price) == (amount * price[1]) \div price[2]

\* shares = amount / price if price else 0.0
Shares(amount, price) ==
    IF price[1] = 0 THEN 0 ELSE (amount * price[2]) \div price[1]

\* self._agent_balances.get(agent_name, 0.0)
BalanceOf(balances, agent) ==
    IF agent \in DOMAIN balances THEN balances[agent] ELSE 0

Snapshot ==
    [reserve |-> cash_reserve, balances |-> agent_balances,
     agent_positions |-> agent_positions, positions |-> positions]

ZeroPrice == <<0, 1>>
\* no thread: the value of a free lock
NoThread == 0
\* a reconcile snapshot that supplies nothing
NoSnapshot == [t \in Tokens |-> 0]
\* the three dictionaries of the ledger, as one value
LedgerOf(balances, apos, pos) ==
    [balances |-> balances, agent_positions |-> apos, positions |-> pos]

\* the record of one call: its arguments, its result, the ledger before it
Call(op, agent, token, side, amount, price, ok, msg, ret, raised) ==
    [op |-> op, agent |-> agent, token |-> token, side |-> side, amount |-> amount,
     price |-> price, ok |-> ok, msg |-> msg, ret |-> ret, raised |-> raised,
     snapshot |-> NoSnapshot, pre |-> Snapshot]

\* ------------------------------------------------------- Portfolio.__init__

\* the state after Portfolio(cash), no thread inside a call, ops calls to come
Constructed(cash, ops) ==
    /\ starting_cash = cash
    /\ cash_reserve = starting_cash
    /\ agent_balances = <<>>
    /\ agent_positions = [a \in Agents |-> [t \in Tokens |-> 0]]
    /\ positions = [t \in Tokens |-> 0]
    /\ pend = [th \in Threads |-> <<>>]
    /\ allocated = <<>>
    /\ last = [op |-> "init", agent |-> "", token |-> "", side |-> "", amount |-> 0,
               price |-> ZeroPrice, ok |-> TRUE, msg |-> "", ret |-> 0, raised |-> FALSE,
               snapshot |-> NoSnapshot,
               pre |-> [reserve |-> starting_cash, balances |-> <<>>,
                        agent_positions |-> [a \in Agents |-> [t \in Tokens |-> 0]],
                        positions |-> [t \in Tokens |-> 0]]]
    /\ nops = 0
    /\ budget = ops
    /\ lock = NoThread
    /\ pc = [th \in Threads |-> "idle"]
    /\ call = [th \in Threads |-> [agent |-> "", token |-> "", side |-> "",
                                   amount |-> 0, price |-> ZeroPrice]]
    /\ reg = [th \in Threads |-> 0]
    /\ base = LedgerOf(<<>>, [a \in Agents |-> [t \in Tokens |-> 0]], [t \in Tokens |-> 0])

\* ----------------------------------------------- MarketDataService.__init__

\* an absent value (None), and a present one
None == <<>>
Some(v) == <<v>>

\* an order book with no level on either side
NoLevels == [bids |-> <<>>, asks |-> <<>>]
\* order books as the provider returns them: sequences of level prices, in the
\* provider's order; level prices are even so that the mean of two is whole
OrderBooks == {[bids |-> <<2>>, asks |-> <<4>>], [bids |-> <<4>>, asks |-> <<6>>], NoLevels}
\* what the provider does with one request for a book: the request fails (an
\* exception or an HTTP error status), returns an empty document, or a book
Answers == {[kind |-> "error", book |-> NoLevels], [kind |-> "empty", book |-> NoLevels]}
               \cup {[kind |-> "book", book |-> b] : b \in OrderBooks}
\* no request was made
NoAnswer == [kind |-> "none", book |-> NoLevels]
\* what the provider does with the request for the listing: failure, or the
\* tokens of the tradeable markets in the order listed
Listings == {[ok |-> FALSE, tokens |-> <<>>], [ok |-> TRUE, tokens |-> <<>>],
             [ok |-> TRUE, tokens |-> <<"t1">>], [ok |-> TRUE, tokens |-> <<"t1", "t2">>]}

MarketConstructed ==
    /\ now = 0
    /\ orderbook_cache = <<>>
    /\ token_price_cache = <<>>
    /\ fresh = [t \in Tokens |-> None]
    /\ listed = <<>>
    /\ mlast = [op |-> "init", token |-> "", ret |-> None, markets |-> <<>>,
                raised |-> FALSE, fetches |-> [t \in Tokens |-> 0],
                answers |-> [t \in Tokens |-> NoAnswer], listing_ok |-> TRUE, at |-> 0,
                pre |-> [orderbook_cache |-> <<>>, token_price_cache |-> <<>>,
                         fresh |-> [t \in Tokens |-> None], listed |-> <<>>]]

\* ----------------------------------------- the arbitration layer, constructed

\* the arbitration layer before any proposal, the advisory model configured or not
ArbitrationConstructed(configured) ==
    /\ advisor = configured
    /\ vlast = [op |-> "init", agent |-> "", decision |-> "", calls |-> 0,
                reply |-> [action |-> "", side |-> ""],
                proposal |-> [token |-> "", side |-> "", amount |-> 0, price |-> ZeroPrice],
                final |-> [token |-> "", side |-> "", amount |-> 0, price |-> ZeroPrice],
                pre |-> [a \in Agents |-> [t \in Tokens |-> 0]]]

\* ------------------------------------------- HivemindCoordinator.__init__

\* FALLBACK_FLAG
FALLBACK_FLAG == "__hivemind_fallback__"
\* HIVEMIND_SPECIALIST_MODELS, in the order configured, and HIVEMIND_COORDINATOR_MODEL
SpecialistModels == <<"s1", "s2">>
CoordinatorModel == "coordinator"

\* a field of a model's JSON object that is not there (or null)
Absent == [kind |-> "absent", value |-> 0]
\* a field that float() accepts, and one it raises ValueError on
Number(n) == [kind |-> "number", value |-> n]
Text == [kind |-> "text", value |-> 0]

\* what a model call gave: kind says whether it raised, returned nothing,
\* returned text, and what the text holds; the fields are those of the object
NoObject(kind) == [kind |-> kind, action |-> "", side |-> "", amount |-> Absent]
Object(action, side, amount) ==
    [kind |-> "object", action |-> action, side |-> side, amount |-> amount]

\* the coordinator before any call, enabled or not
HivemindConstructed(on) ==
    /\ enabled = on
    /\ clast = [op |-> "init", agent |-> "", ret |-> None, polled |-> <<>>,
                replies |-> <<>>,
                reports |-> <<>>, coordinator |-> NoObject("none"),
                proposal |-> [token_id |-> "", side |-> "", amount |-> 0,
                              price |-> ZeroPrice],
                available_shares |-> 0]

\* the services around the ledger, constructed
\* ------------------------------------------------------ ToolRegistry.__init__

\* a caller that is not inside AgentTool.evaluate and has had no signal yet
NotEvaluating ==
    [pc |-> "idle", market |-> "", balance |-> 0, decision |-> <<>>, result |-> <<>>,
     returned |-> FALSE]

ToolNames == {"MomentumChaser", "ArbitrageHunter", "Scalper"}

\* self._tools = {}
RegistryConstructed ==
    /\ tools = <<>>
    /\ tool_agent = None
    /\ evaluating = [c \in Agents |-> NotEvaluating]
    /\ tlast = [op |-> "init", results |-> <<>>, evaluated |-> <<>>,
                registered |-> <<>>, outcomes |-> <<>>]

\* ---------------------------------- BaseAgent.__init__, ExecutionService.__init__

\* BaseAgent(initial_balance=...)
InitialBalance == 3
\* the price of an order that has none
NoPrice == None

\* the agents and the execution service, constructed in a process whose
\* environment holds the API credentials (configured) or not
ExecutionConstructed(configured) ==
    /\ current_balance = [a \in Agents |-> InitialBalance * Tol]
    /\ trades_made = [a \in Agents |-> 0]
    /\ trading_enabled = [a \in Agents |-> configured]
    /\ creds_error_emitted = [a \in Agents |-> FALSE]
    /\ execution = [trading_enabled |-> configured, creds_error_emitted |-> FALSE]
    /\ creds_errors = 0
    /\ sink = 0
    /\ blast = [op |-> "init", seq |-> 0, agent |-> "", amount |-> 0, price |-> NoPrice,
                outcome |-> "", reached |-> FALSE, posted |-> FALSE, ret |-> FALSE,
                raised |-> FALSE]

\* the swarm before its first round
SwarmConstructed ==
    /\ slast = [op |-> "init", proposals |-> <<>>, attempted |-> <<>>, placed |-> <<>>,
                executed |-> 0, balance |-> [a \in Agents |-> 0],
                low |-> [a \in Agents |-> 0]]
    /\ swarm = [iteration |-> 0, status |-> "running", raised |-> {}, proposing |-> {},
                dispatched |-> {}]

\* no mid-price derived yet
QuotesConstructed ==
    qlast = [op |-> "init", orderbook |-> NoLevels, mid |-> None]

\* AgentRunner(agents): no run started, no stop requested
RunnerConstructed ==
    /\ run = [a \in Agents |-> [pc |-> "idle", iteration |-> 0, n |-> 0, idx |-> 0,
                                 decision |-> ""]]
    /\ stop_requested = [a \in Agents |-> FALSE]
    /\ futures = [a \in Agents |-> "none"]
    /\ trace = [a \in Agents |-> [raised |-> "", caught |-> FALSE, slept |-> FALSE,
                                   observed |-> FALSE, late |-> FALSE, refused |-> FALSE]]

ServicesConstructed ==
    /\ HivemindConstructed(TRUE) /\ RegistryConstructed /\ ExecutionConstructed(TRUE)
    /\ SwarmConstructed /\ RunnerConstructed /\ QuotesConstructed

Init ==
    /\ Constructed(MaxCash, MaxOps)
    /\ MarketConstructed
    /\ ArbitrationConstructed(TRUE)
    /\ ServicesConstructed

\* ------------------------------------------------- Portfolio.register_agent

\* mutant: the lock excludes nobody
LockFree_Always(holder) == TRUE

\* with self._lock: a thread enters when no thread holds the lock
LockFree(holder) == holder = NoThread

\* mutant: the request is not capped by the treasury
RegisterAllocation_Uncapped(desired, reserve) == Max(0, desired)

\* allocation = min(float(max(0.0, desired_allocation)), self._cash_reserve)
RegisterAllocation(desired, reserve) == Min(Max(0, desired), reserve)

\* mutant: the treasury is not debited
ReserveAfter_NoDebit(reserve, allocation) == reserve

\* self._cash_reserve -= allocation
ReserveAfter(reserve, allocation) == reserve - allocation

\* the return of a repeated registration: self._agent_balances[agent_name]
RegisteredReturn(balances, agent) == balances[agent]

RegisterAgent(agent, desired) ==
    /\ nops < budget
    /\ LockFree(lock)
    /\ nops' = nops + 1
    /\ IF agent \in DOMAIN agent_balances
       THEN /\ last' = Call("register", agent, "", "", desired, ZeroPrice, TRUE, "",
                            RegisteredReturn(agent_balances, agent), FALSE)
            /\ UNCHANGED <<cash_reserve, agent_balances, allocated>>
       ELSE LET allocation == RegisterAllocation(desired, cash_reserve) IN
            /\ cash_reserve' = ReserveAfter(cash_reserve, allocation)
            /\ agent_balances' = agent_balances @@ (agent :> allocation)
            /\ allocated' = allocated @@ (agent :> allocation)
            /\ last' = Call("register", agent, "", "", desired, ZeroPrice, TRUE, "",
                            allocation, FALSE)
    /\ UNCHANGED <<starting_cash, agent_positions, positions, pend, outsideLedger>>

\* ------------------------------------------------- Portfolio.validate_trade

Accepted == [success |-> TRUE, message |-> ""]
Rejected(message) == [success |-> FALSE, message |-> message]

\* mutant: the positivity check is missing
ValidateBuy_NoPositivity(balance, amount) ==
    IF amount > balance + Tol
    THEN Rejected("Insufficient allocated funds")
    ELSE Accepted

\* the BUY branch: funds first, then positivity
ValidateBuy(balance, amount) ==
    IF amount > balance + Tol
    THEN Rejected("Insufficient allocated funds")
    ELSE IF amount <= 0
         THEN Rejected("Amount must be positive")
         ELSE Accepted

\* the SELL branch
ValidateSell(holding, shares) ==
    IF shares > holding + Tol
    THEN Rejected("Insufficient position to sell")
    ELSE Accepted

\* mutant: a side that is neither BUY nor SELL falls through to success
ValidateUnknown_FallsThrough(side) == Accepted

\* the else branch: neither BUY nor SELL
ValidateUnknown(side) == Rejected("Unknown side")

ValidateTrade(balances, apos, agent, token, side, amount, price) ==
    LET side_norm == Upper(side)
        shares == Shares(amount, price)
        balance == BalanceOf(balances, agent)
        holding == apos[agent][token]
    IN  IF side_norm = "BUY" THEN ValidateBuy(balance, amount)
        ELSE IF side_norm = "SELL" THEN ValidateSell(holding, shares)
        ELSE ValidateUnknown(side)

\* --------------------------------------------------- Portfolio.apply_trade

\* mutant: a BUY credits the balance
BuyBalance_Credits(balance, amount) == balance + amount
\* mutant: a SELL does not floor the holding at zero
SellHolding_NoFloor(holding, shares) == holding - shares

\* self._agent_balances[agent_name] -= amount
BuyBalance(balance, amount) == balance - amount
\* self._agent_positions[agent_name][token_id] += shares
BuyHolding(holding, shares) == holding + shares
\* self._agent_balances[agent_name] += amount
SellBalance(balance, amount) == balance + amount
\* max(0.0, self._agent_positions[agent_name][token_id] - shares)
SellHolding(holding, shares) == Max(0, holding - shares)

\* the ledger after apply_trade; a name without an account raises KeyError at the
\* first statement of either branch (and at the return), before anything is written
ApplyTrade(agent, token, side, amount, price) ==
    LET side_norm == Upper(side)
        shares == Shares(amount, price)
    IN  IF agent \notin DOMAIN agent_balances
        THEN /\ last' = Call("apply", agent, token, side, amount, price, FALSE, "KeyError",
                             0, TRUE)
             /\ UNCHANGED <<agent_balances, agent_positions, positions>>
        ELSE /\ agent_balances' =
                    [agent_balances EXCEPT ![agent] =
                        IF side_norm = "BUY" THEN BuyBalance(@, amount)
                        ELSE IF side_norm = "SELL" THEN SellBalance(@, amount)
                        ELSE @]
             /\ agent_positions' =
                    [agent_positions EXCEPT ![agent][token] =
                        IF side_norm = "BUY" THEN BuyHolding(@, shares)
                        ELSE IF side_norm = "SELL" THEN SellHolding(@, shares)
                        ELSE @]
             /\ positions' =
                    [positions EXCEPT ![token] =
                        IF side_norm = "BUY" THEN BuyHolding(@, shares)
                        ELSE IF side_norm = "SELL" THEN SellHolding(@, shares)
                        ELSE @]
             /\ last' = Call("apply", agent, token, side, amount, price, TRUE, "",
                             agent_balances'[agent], FALSE)

\* -------------------------------------------- Portfolio.reconcile_positions

ReconcilePositions(agent, snapshot) ==
    /\ nops < budget
    /\ LockFree(lock)
    /\ nops' = nops + 1
    /\ agent_positions' =
           [agent_positions EXCEPT ![agent] =
               [t \in Tokens |-> IF snapshot[t] <= 0 THEN @[t] ELSE snapshot[t]]]
    /\ positions' =
           [t \in Tokens |-> IF snapshot[t] <= 0 THEN positions[t]
                             ELSE positions[t] + snapshot[t]]
    /\ last' = [Call("reconcile", agent, "", "", 0, ZeroPrice, TRUE, "", 0, FALSE)
                   EXCEPT !.snapshot = snapshot]
    /\ UNCHANGED <<starting_cash, cash_reserve, agent_balances, pend, allocated,
                   outsideLedger>>

\* ------------------------------------------------------- one trade attempt

\* mutant: the caller applies whatever the validation said
AttemptProceeds_Always(validation) == TRUE

\* the caller goes on to apply_trade only when the validation succeeded
AttemptProceeds(validation) == validation.success

\* first half of an attempt: validate_trade, under the ledger lock
Validate(th, agent, token, side, amount, price) ==
    /\ nops < budget
    /\ LockFree(lock)
    /\ pend[th] = <<>>
    /\ \A other \in Threads : other < th => pend[other] # <<>>
    /\ nops' = nops + 1
    /\ LET validation == ValidateTrade(agent_balances, agent_positions,
                                      agent, token, side, amount, price)
       IN  /\ last' = Call("validate", agent, token, side, amount, price,
                           validation.success, validation.message, 0, FALSE)
           /\ pend' = [pend EXCEPT ![th] =
                          IF AttemptProceeds(validation)
                          THEN <<[agent |-> agent, token |-> token, side |-> side,
                                  amount |-> amount, price |-> price,
                                  validation |-> validation]>>
                          ELSE <<>>]
    /\ UNCHANGED <<ledger, allocated, outsideLedger>>

\* second half of an attempt: apply_trade with the same arguments, under the
\* ledger lock taken anew
Apply(th) ==
    /\ pend[th] # <<>>
    /\ LockFree(lock)
    /\ LET t == pend[th][1] IN ApplyTrade(t.agent, t.token, t.side, t.amount, t.price)
    /\ pend' = [pend EXCEPT ![th] = <<>>]
    /\ UNCHANGED <<starting_cash, cash_reserve, allocated, nops, outsideLedger>>

\* ----------------------------------------------------------- specification

Next ==
    \/ \E agent \in Agents, desired \in Requests : RegisterAgent(agent, desired)
    \/ \E agent \in Agents, snapshot \in [Tokens -> SnapshotShares] :
           ReconcilePositions(agent, snapshot)
    \/ \E th \in Threads, agent \in Agents, token \in Tokens, side \in Sides,
          amount \in Amounts, price \in Prices :
           Validate(th, agent, token, side, amount, price)
    \/ \E th \in Threads : Apply(th)

Spec == Init /\ [][Next]_vars

\* ------------------------------------------------------ sequential histories

\* one caller: register, reconcile and trade attempts one after the other, every
\* apply_trade right behind the validate_trade that accepted the same arguments
SequentialNext ==
    \/ /\ pend[1] = <<>>
       /\ \E agent \in Agents, desired \in Requests : RegisterAgent(agent, desired)
    \/ /\ pend[1] = <<>>
       /\ \E agent \in Agents, snapshot \in [Tokens -> SnapshotShares] :
              ReconcilePositions(agent, snapshot)
    \/ \E agent \in Agents, token \in Tokens, side \in Sides,
          amount \in Amounts, price \in Prices :
           Validate(1, agent, token, side, amount, price)
    \/ Apply(1)

SequentialSpec == Init /\ [][SequentialNext]_vars

\* ------------------------------------- trade attempts against a single agent

\* One registered agent and concurrent attempts whose amounts are multiples of
\* twice the tolerance: every balance and holding stays on that grid, so no
\* comparison of validate_trade is decided by the tolerance.
TheAgent == "a1"
CoarseRequests == {2 * Tol}
CoarseAmounts == {2 * Tol, 4 * Tol}
CoarseSides == {"BUY", "sell"}
PositivePrices == {price \in Prices : price[1] > 0}

Attempts(prices) ==
    \/ \E desired \in CoarseRequests : RegisterAgent(TheAgent, desired)
    \/ /\ TheAgent \in DOMAIN agent_balances
       /\ \E th \in Threads, token \in Tokens, side \in CoarseSides,
             amount \in CoarseAmounts, price \in prices :
              Validate(th, TheAgent, token, side, amount, price)
    \/ \E th \in Threads : Apply(th)

\* attempts at prices above zero
AttemptNext == Attempts(PositivePrices)
AttemptSpec == Init /\ [][AttemptNext]_vars

\* attempts at any price, zero included
AnyPriceNext == Attempts(Prices)
AnyPriceSpec == Init /\ [][AnyPriceNext]_vars

\* ------------------------------------------------- the reference scenario

\* One agent trading one instrument at the price 0.30 against a ledger with 5
\* dollars in the treasury; the requests and amounts are those of the scenario,
\* in any order.
ScenarioAgent == "a1"
ScenarioToken == "t1"
ScenarioPrice == <<3, 10>>
ScenarioRequests == {10 * Dollar}
ScenarioAmounts == {3 * Dollar, (33 * Dollar) \div 10, 6 * Dollar}
ScenarioSides == {"BUY", "SELL"}

ScenarioInit ==
    /\ Constructed(5 * Dollar, ScenarioOps)
    /\ MarketConstructed
    /\ ArbitrationConstructed(TRUE)
    /\ ServicesConstructed

ScenarioNext ==
    \/ \E desired \in ScenarioRequests : RegisterAgent(ScenarioAgent, desired)
    \/ \E side \in ScenarioSides, amount \in ScenarioAmounts :
           Validate(1, ScenarioAgent, ScenarioToken, side, amount, ScenarioPrice)
    \/ \E th \in Threads : Apply(th)

ScenarioSpec == ScenarioInit /\ [][ScenarioNext]_vars

\* ------------------------------------- apply_trade, statement by statement

\* apply_trade as the interpreter runs it: the lock is taken, then each of the
\* three augmented assignments (balance, holding of the agent, aggregate of the
\* token) reads its dictionary entry and writes it back, then the lock is
\* released on the way out of the with block.  Another thread may run between
\* any two of these steps.

\* the statement after the one at position p
AfterStep(p) ==
    CASE p = "load_balance" -> "store_balance"
      [] p = "store_balance" -> "load_holding"
      [] p = "load_holding" -> "store_holding"
      [] p = "store_holding" -> "load_aggregate"
      [] p = "load_aggregate" -> "store_aggregate"
      [] p = "store_aggregate" -> "release"

\* the ledger after one whole apply_trade(c) on the ledger l; a name without
\* an account raises KeyError before anything is written
Applied(l, c) ==
    LET side_norm == Upper(c.side)
        shares == Shares(c.amount, c.price)
    IN  IF c.agent \notin DOMAIN l.balances \/ side_norm \notin {"BUY", "SELL"}
        THEN l
        ELSE LedgerOf(
                 [l.balances EXCEPT ![c.agent] =
                     IF side_norm = "BUY" THEN BuyBalance(@, c.amount)
                     ELSE SellBalance(@, c.amount)],
                 [l.agent_positions EXCEPT ![c.agent][c.token] =
                     IF side_norm = "BUY" THEN BuyHolding(@, shares)
                     ELSE SellHolding(@, shares)],
                 [l.positions EXCEPT ![c.token] =
                     IF side_norm = "BUY" THEN BuyHolding(@, shares)
                     ELSE SellHolding(@, shares)])

\* a thread calls apply_trade(agent, token, side, amount, price)
Begin(th, agent, token, side, amount, price) ==
    /\ pc[th] = "idle"
    /\ \A other \in Threads : other < th => pc[other] # "idle"
    /\ pc' = [pc EXCEPT ![th] = "acquire"]
    /\ call' = [call EXCEPT ![th] = [agent |-> agent, token |-> token, side |-> side,
                                    amount |-> amount, price |-> price]]
    /\ base' = IF \A other \in Threads : pc[other] = "idle"
               THEN LedgerOf(agent_balances, agent_positions, positions)
               ELSE base
    /\ UNCHANGED <<ledger, pend, allocated, last, nops, budget, lock, reg, marketVars, vetoVars, serviceVars>>

\* with self._lock:
Acquire(th) ==
    /\ pc[th] = "acquire"
    /\ LockFree(lock)
    /\ lock' = th
    /\ pc' = [pc EXCEPT ![th] = "load_balance"]
    /\ UNCHANGED <<ledger, pend, allocated, last, nops, budget, call, reg, base, marketVars, vetoVars, serviceVars>>

\* the read of an augmented assignment; self._agent_balances[agent_name] of a
\* name without an account raises KeyError, which leaves the with block, and a
\* side that is neither BUY nor SELL goes straight to the return
Load(th) ==
    /\ pc[th] \in {"load_balance", "load_holding", "load_aggregate"}
    /\ LET c == call[th] IN
       IF pc[th] = "load_balance"
            /\ (c.agent \notin DOMAIN agent_balances
                    \/ Upper(c.side) \notin {"BUY", "SELL"})
       THEN /\ pc' = [pc EXCEPT ![th] = "release"]
            /\ UNCHANGED reg
       ELSE /\ reg' = [reg EXCEPT ![th] =
                          CASE pc[th] = "load_balance" -> agent_balances[c.agent]
                            [] pc[th] = "load_holding" -> agent_positions[c.agent][c.token]
                            [] pc[th] = "load_aggregate" -> positions[c.token]]
            /\ pc' = [pc EXCEPT ![th] = AfterStep(pc[th])]
    /\ UNCHANGED <<ledger, pend, allocated, last, nops, budget, lock, call, base, marketVars, vetoVars, serviceVars>>

\* the write of an augmented assignment, computed from the value read
Store(th) ==
    /\ pc[th] \in {"store_balance", "store_holding", "store_aggregate"}
    /\ LET c == call[th]
           buy == Upper(c.side) = "BUY"
           shares == Shares(c.amount, c.price)
       IN  /\ agent_balances' =
                  IF pc[th] = "store_balance"
                  THEN [agent_balances EXCEPT ![c.agent] =
                           IF buy THEN BuyBalance(reg[th], c.amount)
                           ELSE SellBalance(reg[th], c.amount)]
                  ELSE agent_balances
           /\ agent_positions' =
                  IF pc[th] = "store_holding"
                  THEN [agent_positions EXCEPT ![c.agent][c.token] =
                           IF buy THEN BuyHolding(reg[th], shares)
                           ELSE SellHolding(reg[th], shares)]
                  ELSE agent_positions
           /\ positions' =
                  IF pc[th] = "store_aggregate"
                  THEN [positions EXCEPT ![c.token] =
                           IF buy THEN BuyHolding(reg[th], shares)
                           ELSE SellHolding(reg[th], shares)]
                  ELSE positions
    /\ pc' = [pc EXCEPT ![th] = AfterStep(pc[th])]
    /\ UNCHANGED <<starting_cash, cash_reserve, pend, allocated, last, nops, budget,
                   lock, call, reg, base, marketVars, vetoVars, serviceVars>>

\* the end of the with block: return, or the KeyError on its way out
Release(th) ==
    /\ pc[th] = "release"
    /\ lock' = NoThread
    /\ pc' = [pc EXCEPT ![th] = "done"]
    /\ UNCHANGED <<ledger, pend, allocated, last, nops, budget, call, reg, base, marketVars, vetoVars, serviceVars>>

\* the price of the concurrent calls
HalfPrice == <<1, 2>>

\* agents register, then the threads call apply_trade concurrently
ConcurrentNext ==
    \/ /\ \A th \in Threads : pc[th] = "idle"
       /\ \E agent \in Agents, desired \in CoarseRequests : RegisterAgent(agent, desired)
    \/ \E th \in Threads, agent \in Agents, token \in Tokens, side \in CoarseSides,
          amount \in CoarseAmounts :
           Begin(th, agent, token, side, amount, HalfPrice)
    \/ \E th \in Threads : Acquire(th)
    \/ \E th \in Threads : Load(th)
    \/ \E th \in Threads : Store(th)
    \/ \E th \in Threads : Release(th)

ConcurrentSpec == Init /\ [][ConcurrentNext]_vars

\* ------------------------------------------------------ MarketDataService

\* cache[token] = entry
Put(cache, token, entry) ==
    [t \in DOMAIN cache \cup {token} |-> IF t = token THEN entry ELSE cache[t]]

\* _top_price: the price of the first level of one side, None without a level
TopPrice(levels) == IF levels = <<>> THEN None ELSE Some(levels[1])

\* _compute_mid_price
ComputeMidPrice(orderbook) ==
    LET best_bid == TopPrice(orderbook.bids)
        best_ask == TopPrice(orderbook.asks)
    IN  IF best_bid = None /\ best_ask = None THEN None
        ELSE IF best_bid = None THEN best_ask
        ELSE IF best_ask = None THEN best_bid
        ELSE Some((best_bid[1] + best_ask[1]) \div 2)

\* mutant: a failed request is made a second time
ProviderCalls_Retry(answer) == IF answer.kind = "error" THEN 2 ELSE 1

\* requests.get: one request for a book that is not served from the cache
ProviderCalls(answer) == 1

\* mutant: the exception of a failed request goes up to the caller
FetchFailure_Propagates == [book |-> None, raised |-> TRUE]

\* except Exception: return None
FetchFailure == [book |-> None, raised |-> FALSE]

\* mutant: the cache never serves an entry
Fresh_Never(cache, token, t) == FALSE

\* mutant: without a book, the price cached earlier is returned
PriceWithoutBook_Stale(cache, token) ==
    IF token \in DOMAIN cache THEN Some(cache[token].price) ELSE None

\* if not book: return None
PriceWithoutBook(cache, token) == None

\* cached and time.time() - cached['timestamp'] <= self.settings.cache_ttl
Fresh(cache, token, t) ==
    token \in DOMAIN cache /\ t - cache[token].timestamp <= CacheTtl

\* mutant: a failed request evicts the cached entry of the token
CacheAfterFailure_Evicts(cache, token) ==
    [t \in DOMAIN cache \ {token} |-> cache[t]]

\* the order-book cache after a request that failed: nothing is written
CacheAfterFailure(cache, token) == cache

\* _fetch_orderbook at time t, the provider answering with answer if asked
FetchOrderbook(cache, token, t, answer) ==
    IF Fresh(cache, token, t)
    THEN [book |-> Some(cache[token].orderbook), cache |-> cache, fetches |-> 0,
          answer |-> NoAnswer, raised |-> FALSE]
    ELSE IF answer.kind = "book"
    THEN [book |-> Some(answer.book),
          cache |-> Put(cache, token, [orderbook |-> answer.book, timestamp |-> t]),
          fetches |-> ProviderCalls(answer), answer |-> answer, raised |-> FALSE]
    ELSE IF answer.kind = "empty"
    THEN [book |-> None, cache |-> cache, fetches |-> ProviderCalls(answer),
          answer |-> answer, raised |-> FALSE]
    ELSE [book |-> FetchFailure.book, cache |-> CacheAfterFailure(cache, token),
          fetches |-> ProviderCalls(answer), answer |-> answer,
          raised |-> FetchFailure.raised]

\* the caches and the history before a call
MarketSnapshot ==
    [orderbook_cache |-> orderbook_cache, token_price_cache |-> token_price_cache,
     fresh |-> fresh, listed |-> listed]

\* time passes
Tick ==
    /\ now < MaxTime
    /\ now' = now + 1
    /\ UNCHANGED <<orderbook_cache, token_price_cache, fresh, listed, mlast, portfolioVars,
                   vetoVars, serviceVars>>

\* what a call of the service leaves alone of the ledger: all but the count of calls
marketRest == <<starting_cash, cash_reserve, agent_balances, agent_positions, positions,
                pend, allocated, last, budget, callVars, vetoVars, serviceVars>>

\* get_market_price(token_id)
GetMarketPrice(token, answer) ==
    LET record(ret, raised, r) ==
            [op |-> "price", token |-> token, ret |-> ret, markets |-> <<>>,
             raised |-> raised,
             fetches |-> [t \in Tokens |-> IF t = token THEN r.fetches ELSE 0],
             answers |-> [t \in Tokens |-> IF t = token THEN r.answer ELSE NoAnswer],
             listing_ok |-> TRUE, at |-> now, pre |-> MarketSnapshot]
        nofetch == [fetches |-> 0, answer |-> NoAnswer]
    IN
    /\ nops < budget
    /\ nops' = nops + 1
    /\ IF Fresh(token_price_cache, token, now)
       THEN /\ mlast' = record(Some(token_price_cache[token].price), FALSE, nofetch)
            /\ UNCHANGED <<orderbook_cache, token_price_cache, fresh>>
       ELSE LET r == FetchOrderbook(orderbook_cache, token, now, answer)
                price == IF r.book = None THEN PriceWithoutBook(token_price_cache, token)
                         ELSE ComputeMidPrice(r.book[1])
            IN  /\ orderbook_cache' = r.cache
                /\ token_price_cache' =
                       IF price = None THEN token_price_cache
                       ELSE Put(token_price_cache, token,
                                [price |-> price[1], timestamp |-> now])
                /\ mlast' = record(price, r.raised, r)
                /\ fresh' = IF r.answer.kind = "book"
                            THEN [fresh EXCEPT ![token] = Some([at |-> now, ret |-> price])]
                            ELSE fresh
    /\ UNCHANGED <<now, listed, marketRest>>

\* _build_tokens over the listed tokens, one _fetch_orderbook for each, in order
RECURSIVE BuildTokens(_, _, _, _)
BuildTokens(cache, tokens, t, answers) ==
    IF tokens = <<>>
    THEN [cache |-> cache, out |-> <<>>, fetches |-> [k \in Tokens |-> 0],
          answers |-> [k \in Tokens |-> NoAnswer], raised |-> FALSE]
    ELSE LET token == Head(tokens)
             r == FetchOrderbook(cache, token, t, answers[token])
             rest == BuildTokens(r.cache, Tail(tokens), t, answers)
         IN  IF r.raised
             THEN [cache |-> r.cache, out |-> <<>>,
                   fetches |-> [k \in Tokens |-> IF k = token THEN r.fetches ELSE 0],
                   answers |-> [k \in Tokens |-> IF k = token THEN r.answer ELSE NoAnswer],
                   raised |-> TRUE]
             ELSE [cache |-> rest.cache,
                   out |-> IF r.book = None THEN rest.out
                           ELSE <<[token_id |-> token, price |-> ComputeMidPrice(r.book[1]),
                                   orderbook |-> r.book[1]]>> \o rest.out,
                   fetches |-> [rest.fetches EXCEPT ![token] = @ + r.fetches],
                   answers |-> [rest.answers EXCEPT ![token] = r.answer],
                   raised |-> rest.raised]

\* get_active_markets: the listing is requested anew on every call
GetActiveMarkets(listing, answers) ==
    LET b == IF listing.ok THEN BuildTokens(orderbook_cache, listing.tokens, now, answers)
             ELSE BuildTokens(orderbook_cache, <<>>, now, answers)
    IN  /\ nops < budget
        /\ nops' = nops + 1
        /\ orderbook_cache' = b.cache
        /\ mlast' = [op |-> "markets", token |-> "", ret |-> None, markets |-> b.out,
                     raised |-> b.raised, fetches |-> b.fetches, answers |-> b.answers,
                     listing_ok |-> listing.ok, at |-> now, pre |-> MarketSnapshot]
        /\ listed' = IF b.out # <<>> THEN b.out ELSE listed
        /\ UNCHANGED <<now, token_price_cache, fresh, marketRest>>

MarketNext ==
    \/ Tick
    \/ \E token \in Tokens, answer \in Answers : GetMarketPrice(token, answer)
    \/ \E listing \in Listings, answers \in [Tokens -> Answers] :
           GetActiveMarkets(listing, answers)

MarketSpec == Init /\ [][MarketNext]_vars

\* ------------------------------------------------------- the veto stage

\* what the advisory model does with one request: it answers EXECUTE, with or
\* without another direction, or SKIP, or something that is no such answer, or
\* the call fails
Replies == {[action |-> "EXECUTE", side |-> ""], [action |-> "EXECUTE", side |-> "BUY"],
            [action |-> "EXECUTE", side |-> "SELL"], [action |-> "SKIP", side |-> ""],
            [action |-> "unparsable", side |-> ""], [action |-> "error", side |-> ""]}
\* no request was made
NoReply == [action |-> "", side |-> ""]
Directions == {"BUY", "SELL"}

\* mutant: the stage leaves the holdings to the model
SellWithoutShares_Unchecked(side, held) == FALSE

\* the check of the stage itself: a SELL of an instrument the agent holds none of
SellWithoutShares(side, held) == side = "SELL" /\ held = 0

\* the proposal after the overrides of an EXECUTE answer
Overridden(proposal, reply) ==
    IF reply.side = "" THEN proposal ELSE [proposal EXCEPT !.side = reply.side]

\* one proposal of an agent through the veto stage, the model answering with
\* reply if asked
VetoStage(agent, token, side, amount, price, reply) ==
    LET proposal == [token |-> token, side |-> side, amount |-> amount, price |-> price]
        held == agent_positions[agent][token]
        outcome(decision, calls, answer, final) ==
            [op |-> "veto", agent |-> agent, decision |-> decision, calls |-> calls,
             reply |-> answer, proposal |-> proposal, final |-> final,
             pre |-> agent_positions]
    IN
    /\ nops < budget
    /\ nops' = nops + 1
    /\ vlast' =
           IF SellWithoutShares(side, held) THEN outcome("veto", 0, NoReply, proposal)
           ELSE IF ~advisor THEN outcome("execute", 0, NoReply, proposal)
           ELSE IF reply.action = "EXECUTE"
                THEN outcome("execute", 1, reply, Overridden(proposal, reply))
           ELSE IF reply.action = "SKIP" THEN outcome("veto", 1, reply, proposal)
           ELSE outcome("execute", 1, reply, proposal)
    /\ UNCHANGED <<starting_cash, cash_reserve, agent_balances, agent_positions, positions,
                   pend, allocated, last, budget, callVars, marketVars, advisor,
                   serviceVars>>

VetoInit ==
    /\ Constructed(MaxCash, MaxOps)
    /\ MarketConstructed
    /\ \E configured \in BOOLEAN : ArbitrationConstructed(configured)
    /\ ServicesConstructed

\* holdings come from reconciled snapshots; proposals go through the stage
VetoNext ==
    \/ \E agent \in Agents, snapshot \in [Tokens -> SnapshotShares] :
           ReconcilePositions(agent, snapshot)
    \/ \E agent \in Agents, token \in Tokens, side \in Directions,
          amount \in CoarseAmounts, reply \in Replies :
           VetoStage(agent, token, side, amount, HalfPrice, reply)

VetoSpec == VetoInit /\ [][VetoNext]_vars

\* ------------------------------- HivemindCoordinator.collaborative_decision

\* what one call of a model gives: the call raises, returns nothing, returns
\* text without braces, text whose braces hold no JSON, the object {}, or an
\* object with some of the fields action, side and amount
SpecialistReplies == {NoObject("raise"), NoObject("broken"),
                      Object("EXECUTE", "", Absent), Object("skip", "", Absent)}
CoordinatorReplies ==
    {NoObject("raise"), NoObject("nothing"), NoObject("text"), NoObject("broken"),
     NoObject("empty"),
     Object("EXECUTE", "", Absent), Object("execute", "sell", Number(-2)),
     Object("EXECUTE", "", Number(4)), Object("EXECUTE", "BUY", Text),
     Object("SKIP", "", Absent), Object("", "", Number(4))}

\* str(...).upper() on the action strings
UpperAction(action) ==
    CASE action = "execute" -> "EXECUTE"
      [] action = "skip" -> "SKIP"
      [] OTHER -> action

\* _call_model: the text returned, None when the call raised or returned nothing
CallModel(reply) ==
    IF reply.kind \in {"raise", "nothing"} THEN None ELSE Some(reply)

\* _parse_json: the object between the first { and the last }, None without
\* braces or when json.loads fails (logged as an error or as a debug note)
ParseJson(raw) ==
    IF raw = None THEN None
    ELSE IF raw[1].kind \in {"text", "broken"} THEN None
    ELSE Some(raw[1])

\* not data: no object, or the empty object
Falsy(parsed) == parsed = None \/ parsed[1].kind = "empty"

\* mutant: without a coordinator decision the proposal goes through
CoordinatorUnusable_PassThrough(proposal) == Some(proposal)

\* return {FALLBACK_FLAG: True}
CoordinatorUnusable(proposal) == Some(FALLBACK_FLAG :> TRUE)

\* action == "EXECUTE", after str(...).upper()
Approves(action) == UpperAction(action) = "EXECUTE"

\* mutant: the amount of the coordinator is taken as it is
ClampAmount_Unclamped(amount) == amount

\* max(0.0, float(decision["amount"]))
ClampAmount(amount) == Max(0, amount)

\* final = dict(proposal), then the overrides of the decision: a side that is
\* there and not empty, an amount that float() accepts
Final(proposal, decision) ==
    LET with_side == IF decision.side # ""
                     THEN [proposal EXCEPT !.side = Upper(decision.side)]
                     ELSE proposal
    IN  IF decision.amount.kind = "number"
        THEN [with_side EXCEPT !.amount = ClampAmount(decision.amount.value)]
        ELSE with_side

\* mutant: a specialist without an opinion ends the poll
SpecialistFailed_Breaks(rest) == <<>>

\* if not data: continue
SpecialistFailed(rest) == rest

\* the loop over self.specialist_models: the reports of those whose reply parses
RECURSIVE SpecialistReports(_, _)
SpecialistReports(models, replies) ==
    IF models = <<>> THEN <<>>
    ELSE LET model == Head(models)
             data == ParseJson(CallModel(replies[model]))
             rest == SpecialistReports(Tail(models), replies)
         IN  IF Falsy(data) THEN SpecialistFailed(rest)
             ELSE <<[model |-> model, action |-> UpperAction(data[1].action),
                     side |-> data[1].side]>> \o rest

\* collaborative_decision for one proposal of an agent, the specialists
\* answering with replies and the coordinator with reply
CollaborativeDecision(agent, token, side, amount, price, replies, reply) ==
    LET proposal == [token_id |-> token, side |-> side, amount |-> amount, price |-> price]
        decision == ParseJson(CallModel(reply))
        record(ret, polled, reports, answer) ==
            [op |-> "decide", agent |-> agent, ret |-> ret, polled |-> polled,
             replies |-> replies, reports |-> reports, coordinator |-> answer, proposal |-> proposal,
             available_shares |-> agent_positions[agent][token]]
        asked(ret) == record(ret, SpecialistModels \o <<CoordinatorModel>>,
                             SpecialistReports(SpecialistModels, replies), reply)
    IN
    /\ nops < budget
    /\ nops' = nops + 1
    /\ clast' =
           IF ~enabled THEN record(None, <<>>, <<>>, NoObject("none"))
           ELSE IF Falsy(decision) THEN asked(CoordinatorUnusable(proposal))
           ELSE IF ~Approves(decision[1].action) THEN asked(None)
           ELSE asked(Some(Final(proposal, decision[1])))
    /\ UNCHANGED <<starting_cash, cash_reserve, agent_balances, agent_positions, positions,
                   pend, allocated, last, budget, callVars, marketVars, vetoVars, enabled,
                   toolVars, execVars, swarmVars, loopVars, quoteVars>>

ConsensusInit ==
    /\ Constructed(MaxCash, ConsensusOps)
    /\ MarketConstructed
    /\ ArbitrationConstructed(TRUE)
    /\ \E on \in BOOLEAN : HivemindConstructed(on)
    /\ RegistryConstructed
    /\ ExecutionConstructed(TRUE)
    /\ SwarmConstructed
    /\ RunnerConstructed
    /\ QuotesConstructed

\* holdings come from reconciled snapshots; proposals go through the stage
ConsensusNext ==
    \/ \E snapshot \in [Tokens -> SnapshotShares] : ReconcilePositions(TheAgent, snapshot)
    \/ \E token \in Tokens, side \in Directions, amount \in CoarseAmounts,
          replies \in [{"s1", "s2"} -> SpecialistReplies], reply \in CoordinatorReplies :
           CollaborativeDecision(TheAgent, token, side, amount, HalfPrice, replies, reply)

ConsensusSpec == ConsensusInit /\ [][ConsensusNext]_vars

\* ------------------------------------------------------------- ToolRegistry

\* the elements of a sequence
Range(seq) == {seq[i] : i \in 1..Len(seq)}

\* what analyze_market of a tool's agent does in one call: it raises, returns
\* nothing, or returns a decision
Decision(side, amount) == [kind |-> "decision", side |-> side, amount |-> amount]
NoDecision(kind) == [kind |-> kind, side |-> "", amount |-> 0]
Outcomes == {NoDecision("raise"), NoDecision("nothing"),
             Decision("BUY", 2 * Tol), Decision("SELL", 0)}
ToolBalances == {0, 2 * Tol}

\* min(1.0, amount / balance), in percent
BetPct(amount, balance) == Min(100, (100 * amount) \div balance)

\* ToolResult(side=..., confidence=0.6, price=..., bet_pct=...)
ToolResult(decision, balance) ==
    [side |-> decision.side, confidence |-> 60,
     bet_pct |-> IF decision.amount # 0 /\ balance > 0
                 THEN Some(BetPct(decision.amount, balance)) ELSE None]

\* ToolRegistry.register: self._tools[tool.name] = tool
Register(name) ==
    /\ nops < budget
    /\ nops' = nops + 1
    /\ tools' = IF name \in Range(tools) THEN tools ELSE Append(tools, name)
    /\ UNCHANGED <<starting_cash, cash_reserve, agent_balances, agent_positions, positions,
                   pend, allocated, last, budget, callVars, marketVars, vetoVars,
                   consensusVars, tlast, tool_agent, evaluating, execVars, swarmVars,
                   loopVars, quoteVars>>

\* mutant: a tool that raised is left out of the results
ToolFailed_Dropped(results, name) == results

\* except Exception: results[name] = None
ToolFailed(results, name) == (name :> None) @@ results

\* the loop of evaluate_all over the tools from position i on, results and the
\* tools evaluated so far in acc
RECURSIVE EvaluateFrom(_, _, _, _)
EvaluateFrom(i, outcomes, balance, acc) ==
    IF i > Len(tools) THEN acc
    ELSE LET name == tools[i]
             outcome == outcomes[name]
             results ==
                 CASE outcome.kind = "raise" -> ToolFailed(acc.results, name)
                   [] outcome.kind = "nothing" -> (name :> None) @@ acc.results
                   [] OTHER -> (name :> Some(ToolResult(outcome, balance))) @@ acc.results
         IN  EvaluateFrom(i + 1, outcomes, balance,
                          [results |-> results, evaluated |-> Append(acc.evaluated, name)])

\* ToolRegistry.evaluate_all
EvaluateAll(outcomes, balance) ==
    LET done == EvaluateFrom(1, outcomes, balance, [results |-> <<>>, evaluated |-> <<>>])
    IN
    /\ nops < budget
    /\ nops' = nops + 1
    /\ tlast' = [op |-> "evaluate_all", results |-> done.results,
                 evaluated |-> done.evaluated, registered |-> tools,
                 outcomes |-> outcomes]
    /\ tool_agent' = IF tools = <<>> THEN tool_agent ELSE Some(balance)
    /\ UNCHANGED <<starting_cash, cash_reserve, agent_balances, agent_positions, positions,
                   pend, allocated, last, budget, callVars, marketVars, vetoVars,
                   consensusVars, tools, evaluating, execVars, swarmVars, loopVars,
                   quoteVars>>

ToolInit ==
    /\ Constructed(MaxCash, ScenarioOps)
    /\ MarketConstructed
    /\ ArbitrationConstructed(TRUE)
    /\ ServicesConstructed

ToolNext ==
    \/ \E name \in ToolNames : Register(name)
    \/ \E outcomes \in [Range(tools) -> Outcomes], balance \in ToolBalances :
           EvaluateAll(outcomes, balance)

ToolSpec == ToolInit /\ [][ToolNext]_vars

\* ------------------------------------- AgentTool.evaluate, statement by statement

\* the markets a caller passes: one the generator passes over, one it bets on
ToolMarkets == {"flat", "up"}
\* the balances the callers pass
CallerBalances == {5 * Dollar, 10 * Dollar}

\* analyze_market of the wrapped generator (MomentumChaser): nothing, or a BUY of
\* max(0.5, min(self.current_balance * self.bet_percentage, self.current_balance))
AnalyzeMarket(market, balance) ==
    IF market = "flat" THEN NoDecision("nothing")
    ELSE Decision("BUY", Max(Dollar \div 2, Min(balance \div 5, balance)))

\* what evaluate returns for a decision of the generator and the caller's context
Signal(decision, balance) ==
    IF decision.kind = "nothing" THEN None ELSE Some(ToolResult(decision, balance))

\* what the steps of a caller inside evaluate leave alone
ToolFrame ==
    UNCHANGED <<starting_cash, cash_reserve, agent_balances, agent_positions, positions,
                pend, allocated, last, nops, budget, callVars, marketVars, vetoVars,
                consensusVars, tools, tlast, execVars, swarmVars, loopVars, quoteVars>>

\* get_tool_signals(agent_name, market, balance): the context is built and
\* evaluate_all enters tool.evaluate(context)
GetToolSignals(c, market, balance) ==
    /\ evaluating[c].pc = "idle"
    /\ evaluating' = [evaluating EXCEPT ![c] =
                          [NotEvaluating EXCEPT !.pc = "get_agent", !.market = market,
                                                !.balance = balance]]
    /\ UNCHANGED tool_agent
    /\ ToolFrame

\* agent = self._get_agent(context.balance): the one instance of the tool is
\* created if there is none, and its current_balance is set
GetAgent(c) ==
    /\ evaluating[c].pc = "get_agent"
    /\ tool_agent' = Some(evaluating[c].balance)
    /\ evaluating' = [evaluating EXCEPT ![c].pc = "analyze"]
    /\ ToolFrame

\* decision = agent.analyze_market(context.market), which reads
\* self.current_balance of the instance
ToolAnalyze(c) ==
    /\ evaluating[c].pc = "analyze"
    /\ evaluating' = [evaluating EXCEPT
                          ![c].pc = "return",
                          ![c].decision = AnalyzeMarket(evaluating[c].market, tool_agent[1])]
    /\ UNCHANGED tool_agent
    /\ ToolFrame

\* the rest of evaluate: bet_pct from the decision and context.balance, and
\* the ToolResult returned through evaluate_all
ToolReturn(c) ==
    /\ evaluating[c].pc = "return"
    /\ evaluating' = [evaluating EXCEPT
                          ![c].pc = "idle",
                          ![c].result = Signal(evaluating[c].decision, evaluating[c].balance),
                          ![c].returned = TRUE]
    /\ UNCHANGED tool_agent
    /\ ToolFrame

\* the callers are agents on their own workers; the tool is shared
SharedToolNext ==
    \E c \in Agents :
        \/ \E market \in ToolMarkets, balance \in CallerBalances :
               GetToolSignals(c, market, balance)
        \/ GetAgent(c)
        \/ ToolAnalyze(c)
        \/ ToolReturn(c)

SharedToolSpec == ToolInit /\ [][SharedToolNext]_vars

\* ------------------------------ BaseAgent.place_bet, ExecutionService.place_order

\* what create_order and post_order do with one order: the sink accepts it,
\* answers without success, answers nothing, or one of the two calls raises
SinkOutcomes == {"success", "rejected", "nothing", "create_raises", "post_raises"}
\* cash amounts of a bet: negative, zero, within the initial balance, above it
BetAmounts == {-1, 0, Tol, 2 * Tol, InitialBalance * Tol + 1}
\* prices of a bet: none, zero, one half, one
BetPrices == {NoPrice, Some(<<0, 1>>), Some(<<1, 2>>), Some(<<1, 1>>)}

\* 0.001 <= price <= 0.999
BetPriceOk(price) ==
    /\ price # NoPrice
    /\ 1000 * price[1][1] >= price[1][2]
    /\ 1000 * price[1][1] <= 999 * price[1][2]

\* mutant: every answer of the sink counts as a success
SinkAccepted_Unchecked(outcome) == TRUE

\* resp and resp.get('success')
SinkAccepted(outcome) == outcome = "success"

\* the agents' side of the state place_bet works on
BetState ==
    [current_balance |-> current_balance, trades_made |-> trades_made,
     creds_error_emitted |-> creds_error_emitted, creds_errors |-> creds_errors,
     sink |-> sink]

\* mutant: an accepted bet leaves the balance as it was
AfterBet_Kept(balance, amount) == balance

\* self.current_balance -= amount
AfterBet(balance, amount) == balance - amount

\* mutant: a bet larger than the balance goes on to the sink
InsufficientBalance_Unchecked(amount, balance) == FALSE

\* if amount > self.current_balance: return False
InsufficientBalance(amount, balance) == amount > balance

\* place_bet of agent on the state st: the state after it, what it returned,
\* whether it got as far as create_order, and whether post_order was called
PlaceBetOn(st, agent, amount, price, outcome) ==
    LET failed(after, reached, posted) ==
            [st |-> after, ret |-> FALSE, reached |-> reached, posted |-> posted]
        sent == [st EXCEPT !.sink = @ + 1]
    IN
    IF ~trading_enabled[agent]
    THEN IF ~st.creds_error_emitted[agent]
         THEN failed([st EXCEPT !.creds_error_emitted[agent] = TRUE,
                                !.creds_errors = @ + 1], FALSE, FALSE)
         ELSE failed(st, FALSE, FALSE)
    ELSE IF InsufficientBalance(amount, st.current_balance[agent]) THEN failed(st, FALSE, FALSE)
    ELSE IF amount <= 0 THEN failed(st, FALSE, FALSE)
    ELSE IF ~BetPriceOk(price) THEN failed(st, FALSE, FALSE)
    ELSE IF outcome = "create_raises" THEN failed(st, TRUE, FALSE)
    ELSE IF outcome = "post_raises" THEN failed(sent, TRUE, TRUE)
    ELSE IF SinkAccepted(outcome)
    THEN [st |-> [sent EXCEPT !.current_balance[agent] = AfterBet(@, amount),
                              !.trades_made[agent] = @ + 1],
          ret |-> TRUE, reached |-> TRUE, posted |-> TRUE]
    ELSE failed(sent, TRUE, TRUE)

\* BaseAgent.place_bet
PlaceBet(agent, amount, price, outcome) ==
    LET done == PlaceBetOn(BetState, agent, amount, price, outcome)
    IN
    /\ nops < budget
    /\ nops' = nops + 1
    /\ current_balance' = done.st.current_balance
    /\ trades_made' = done.st.trades_made
    /\ creds_error_emitted' = done.st.creds_error_emitted
    /\ creds_errors' = done.st.creds_errors
    /\ sink' = done.st.sink
    /\ blast' = [op |-> "place_bet", seq |-> nops + 1, agent |-> agent, amount |-> amount,
                 price |-> price, outcome |-> outcome, reached |-> done.reached,
                 posted |-> done.posted, ret |-> done.ret, raised |-> FALSE]
    /\ UNCHANGED <<starting_cash, cash_reserve, agent_balances, agent_positions, positions,
                   pend, allocated, last, budget, callVars, marketVars, vetoVars,
                   consensusVars, toolVars, trading_enabled, execution, swarmVars,
                   loopVars, quoteVars>>

\* ExecutionService.place_order, with ensure_trading_enabled; an exception of
\* amount / price, create_order or post_order leaves the method
PlaceOrder(amount, price, outcome) ==
    LET enabled_now == execution.trading_enabled
        logs == ~enabled_now /\ ~execution.creds_error_emitted
        divides == price # NoPrice /\ price[1][1] # 0
        reached == enabled_now /\ divides
        posts == reached /\ outcome # "create_raises"
    IN
    /\ nops < budget
    /\ nops' = nops + 1
    /\ execution' = IF logs THEN [execution EXCEPT !.creds_error_emitted = TRUE]
                    ELSE execution
    /\ creds_errors' = IF logs THEN creds_errors + 1 ELSE creds_errors
    /\ sink' = IF posts THEN sink + 1 ELSE sink
    /\ blast' = [op |-> "place_order", seq |-> nops + 1, agent |-> "", amount |-> amount,
                 price |-> price, outcome |-> outcome, reached |-> reached,
                 posted |-> posts,
                 ret |-> posts /\ outcome = "success",
                 raised |-> enabled_now
                            /\ (~divides \/ outcome \in {"create_raises", "post_raises"})]
    /\ UNCHANGED <<starting_cash, cash_reserve, agent_balances, agent_positions, positions,
                   pend, allocated, last, budget, callVars, marketVars, vetoVars,
                   consensusVars, toolVars, current_balance, trades_made, trading_enabled,
                   creds_error_emitted, swarmVars, loopVars, quoteVars>>

ExecInit ==
    /\ Constructed(MaxCash, MaxOps)
    /\ MarketConstructed
    /\ ArbitrationConstructed(TRUE)
    /\ HivemindConstructed(TRUE)
    /\ RegistryConstructed
    /\ \E configured \in BOOLEAN : ExecutionConstructed(configured)
    /\ SwarmConstructed
    /\ RunnerConstructed
    /\ QuotesConstructed

ExecNext ==
    \/ \E agent \in Agents, amount \in BetAmounts, price \in BetPrices,
          outcome \in SinkOutcomes : PlaceBet(agent, amount, price, outcome)
    \/ \E amount \in BetAmounts, price \in BetPrices, outcome \in SinkOutcomes :
           PlaceOrder(amount, price, outcome)

ExecSpec == ExecInit /\ [][ExecNext]_vars

\* ------------------------------------------------------ swarm.execute_proposals

\* the proposals of one round, as analyze_agents collected them: the agent, the
\* amount of its decision, and what the sink will do with the order
Proposal(agent, amount, outcome) == [agent |-> agent, amount |-> amount, outcome |-> outcome]
ProposalAmounts == {0, Tol, 2 * Tol}
Proposals ==
    {Proposal(agent, amount, outcome) :
        agent \in Agents, amount \in ProposalAmounts, outcome \in {"success", "rejected"}}
RoundProposals == UNION {[1..n -> Proposals] : n \in 0..MaxProposals}

\* mutant: the smallest amount first
SortsBefore_Ascending(a, b) == a.amount <= b.amount

\* key=lambda item: item[2].get("amount", 0.0), reverse=True: a stays before b
SortsBefore(a, b) == a.amount >= b.amount

\* list.sort, which is stable: x goes behind everything that stays before it
RECURSIVE Insert(_, _)
Insert(x, sorted) ==
    IF sorted = <<>> THEN <<x>>
    ELSE IF SortsBefore(Head(sorted), x) THEN <<Head(sorted)>> \o Insert(x, Tail(sorted))
    ELSE <<x>> \o sorted

RECURSIVE Sorted(_)
Sorted(proposals) ==
    IF proposals = <<>> THEN <<>>
    ELSE Insert(proposals[Len(proposals)],
                Sorted(SubSeq(proposals, 1, Len(proposals) - 1)))

\* all([side, token_id, amount, price]): the strategies always name a side, a
\* token and a price, so the amount decides
Complete(proposal) == proposal.amount # 0

\* the loop of execute_proposals over the sorted proposals from position i on
RECURSIVE Dispatch(_, _, _)
Dispatch(sorted, i, acc) ==
    IF i > Len(sorted) THEN acc
    ELSE LET p == sorted[i]
             done == PlaceBetOn(acc.st, p.agent, p.amount, Some(HalfPrice), p.outcome)
         IN  IF ~Complete(p) THEN Dispatch(sorted, i + 1, acc)
             ELSE Dispatch(sorted, i + 1,
                           [st |-> done.st,
                            attempted |-> Append(acc.attempted, p),
                            placed |-> Append(acc.placed, done.ret),
                            low |-> [a \in Agents |->
                                        Min(acc.low[a], done.st.current_balance[a])],
                            executed |-> acc.executed + (IF done.ret THEN 1 ELSE 0)])

\* execute_proposals(proposals)
ExecuteProposals(proposals) ==
    LET done == Dispatch(Sorted(proposals), 1,
                         [st |-> BetState, attempted |-> <<>>, placed |-> <<>>,
                          low |-> current_balance, executed |-> 0])
    IN
    /\ nops < budget
    /\ nops' = nops + 1
    /\ current_balance' = done.st.current_balance
    /\ trades_made' = done.st.trades_made
    /\ creds_error_emitted' = done.st.creds_error_emitted
    /\ creds_errors' = done.st.creds_errors
    /\ sink' = done.st.sink
    /\ slast' = [op |-> "execute_proposals", proposals |-> proposals,
                 attempted |-> done.attempted, placed |-> done.placed,
                 executed |-> done.executed, balance |-> current_balance,
                 low |-> done.low]
    /\ UNCHANGED <<starting_cash, cash_reserve, agent_balances, agent_positions, positions,
                   pend, allocated, last, budget, callVars, marketVars, vetoVars,
                   consensusVars, toolVars, trading_enabled, execution, blast, swarm,
                   loopVars, quoteVars>>

SwarmInit ==
    /\ Constructed(MaxCash, SwarmRounds)
    /\ MarketConstructed
    /\ ArbitrationConstructed(TRUE)
    /\ ServicesConstructed

SwarmNext == \E proposals \in RoundProposals : ExecuteProposals(proposals)

SwarmSpec == SwarmInit /\ [][SwarmNext]_vars

\* ------------------------------------------------------------ swarm.swarm_loop

\* the agents of the swarm, in the order of the list
SwarmAgents == <<"a1", "a2">>
\* what analyze_market of an agent does in a round: it raises, returns nothing,
\* or returns a decision
RoundOutcomes == {NoDecision("raise"), NoDecision("nothing"),
                  Decision("BUY", Tol), Decision("BUY", 2 * Tol)}

\* analyze_agents has no handler and swarm_loop has none: the exception of
\* analyze_market leaves swarm_loop
AnalysisRaised(status) == "crashed"

\* analyze_agents(agents, markets, markets_per_agent) over the agents from
\* position i on: the proposals collected, or the agent whose analysis raised
RECURSIVE AnalyzeAgents(_, _, _, _)
AnalyzeAgents(i, analysis, sinks, acc) ==
    IF i > Len(SwarmAgents) THEN [proposals |-> acc, raised |-> {}]
    ELSE LET agent == SwarmAgents[i]
             outcome == analysis[agent]
         IN  CASE outcome.kind = "raise" -> [proposals |-> acc, raised |-> {agent}]
               [] outcome.kind = "nothing" -> AnalyzeAgents(i + 1, analysis, sinks, acc)
               [] OTHER ->
                   AnalyzeAgents(i + 1, analysis, sinks,
                                 Append(acc, Proposal(agent, outcome.amount, sinks[agent])))

\* one round of swarm_loop: the markets, analyze_agents, execute_proposals
SwarmRound(markets, analysis, sinks) ==
    LET analyzed == AnalyzeAgents(1, analysis, sinks, <<>>)
        done == Dispatch(Sorted(analyzed.proposals), 1,
                         [st |-> BetState, attempted |-> <<>>, placed |-> <<>>,
                          low |-> current_balance, executed |-> 0])
        proposing == {a \in Agents : analysis[a].kind = "decision"}
        crashes == markets /\ analyzed.raised # {}
                       /\ AnalysisRaised(swarm.status) = "crashed"
        dispatches == markets /\ ~crashes
    IN
    /\ swarm.status = "running"
    /\ swarm.iteration < SwarmIterations
    /\ swarm' = [iteration |-> swarm.iteration + 1,
                 status |-> IF crashes THEN "crashed" ELSE "running",
                 raised |-> IF markets THEN analyzed.raised ELSE {},
                 proposing |-> IF markets THEN proposing ELSE {},
                 dispatched |-> IF dispatches
                                THEN {done.attempted[i].agent : i \in 1..Len(done.attempted)}
                                ELSE {}]
    /\ IF dispatches
       THEN /\ current_balance' = done.st.current_balance
            /\ trades_made' = done.st.trades_made
            /\ creds_error_emitted' = done.st.creds_error_emitted
            /\ creds_errors' = done.st.creds_errors
            /\ sink' = done.st.sink
            /\ slast' = [op |-> "execute_proposals", proposals |-> analyzed.proposals,
                         attempted |-> done.attempted, placed |-> done.placed,
                         executed |-> done.executed, balance |-> current_balance,
                         low |-> done.low]
       ELSE UNCHANGED <<current_balance, trades_made, creds_error_emitted, creds_errors,
                        sink, slast>>
    /\ UNCHANGED <<starting_cash, cash_reserve, agent_balances, agent_positions, positions,
                   pend, allocated, last, nops, budget, callVars, marketVars, vetoVars,
                   consensusVars, toolVars, trading_enabled, execution, blast, loopVars,
                   quoteVars>>

SwarmLoopNext ==
    \E markets \in BOOLEAN, analysis \in [Agents -> RoundOutcomes],
       sinks \in [Agents -> {"success", "post_raises"}] :
        SwarmRound(markets, analysis, sinks)

SwarmLoopSpec == SwarmInit /\ [][SwarmLoopNext]_vars

\* ----------------------------------------------- AgentRunner and BaseAgent.run

\* should_continue() of the agents: the balance has not fallen below a threshold
ShouldContinue(agent) == current_balance[agent] >= MinBalance * Tol

\* mutant: the loop never looks at the stop flag
StopObserved_Ignored(agent) == FALSE

\* the stop flag of the agent, as a checkpoint of the loop reads it
StopObserved(agent) == stop_requested[agent]

\* mutant: an exception leaves the loop
AfterException_Propagates(site) == "crashed"

\* except Exception as e: the handler of the loop takes over
AfterException(site) == "except"

\* what get_active_markets gives the loop: it raises, or so many markets
FetchOutcomes == {"raise", "0", "1", "2"}
MarketCount(outcome) == CASE outcome = "1" -> 1 [] outcome = "2" -> 2 [] OTHER -> 0
\* what analyze_market gives: it raises, nothing, a decision, a decision that
\* lacks one of the keys place_bet is called with
AnalyzeOutcomes == {"raise", "nothing", "decision", "malformed"}

\* the loop of an agent that is not running
NotStarted == [pc |-> "idle", iteration |-> 0, n |-> 0, idx |-> 0, decision |-> ""]
NoTrace == [raised |-> "", caught |-> FALSE, slept |-> FALSE, observed |-> FALSE,
            late |-> FALSE, refused |-> FALSE]

\* what the steps of the loop of one agent leave alone
LoopFrame ==
    UNCHANGED <<starting_cash, cash_reserve, agent_balances, agent_positions, positions,
                pend, allocated, last, nops, budget, callVars, marketVars, vetoVars,
                consensusVars, toolVars, swarmVars, quoteVars, trading_enabled, execution,
                stop_requested>>
NoBet == UNCHANGED <<current_balance, trades_made, creds_error_emitted, creds_errors, sink, blast>>

\* mutant: half as many workers as agents
PoolSize_Halved == Cardinality(Agents) \div 2

\* ThreadPoolExecutor(max_workers=len(self.agents) or 1)
PoolSize == Cardinality(Agents)

\* the agents whose run holds a worker of the pool
Busy == {a \in Agents : run[a].pc \notin {"idle", "queued", "done"}}

\* AgentRunner.is_running: the agent has an event and it is not set
IsRunning(agent) == futures[agent] = "clear"

\* AgentRunner.start_agent: nothing for an agent whose run has not finished,
\* else a new event and _run_agent submitted to the pool
StartAgent(agent) ==
    /\ IF IsRunning(agent)
       THEN /\ trace' = [trace EXCEPT ![agent].refused = TRUE]
            /\ UNCHANGED <<run, futures>>
       ELSE /\ futures' = [futures EXCEPT ![agent] = "clear"]
            /\ run' = [run EXCEPT ![agent] = [NotStarted EXCEPT !.pc = "queued"]]
            /\ trace' = [trace EXCEPT ![agent] = NoTrace]
    /\ LoopFrame /\ NoBet

\* a worker of the pool that is free takes the submitted _run_agent
WorkerStart(agent) ==
    /\ run[agent].pc = "queued"
    /\ Cardinality(Busy) < PoolSize
    /\ run' = [run EXCEPT ![agent].pc = "top"]
    /\ UNCHANGED <<futures, trace>>
    /\ LoopFrame /\ NoBet

\* _run_agent as a whole: agent.run(...) returns or raises, and
\* finally: stop_event.set()
RunAgent(agent, raises) ==
    /\ run[agent].pc = "top"
    /\ run' = [run EXCEPT ![agent].pc = "done"]
    /\ futures' = [futures EXCEPT ![agent] = "set"]
    /\ trace' = [trace EXCEPT ![agent].raised = IF raises THEN "run" ELSE ""]
    /\ LoopFrame /\ NoBet

\* AgentRunner.stop_agent: agent.request_stop()
StopAgent(agent) ==
    /\ ~stop_requested[agent]
    /\ stop_requested' = [stop_requested EXCEPT ![agent] = TRUE]
    /\ UNCHANGED <<starting_cash, cash_reserve, agent_balances, agent_positions, positions,
                   pend, allocated, last, nops, budget, callVars, marketVars, vetoVars,
                   consensusVars, toolVars, swarmVars, quoteVars, execVars, run, futures,
                   trace>>

\* AgentRunner.stop_all: request_stop() on every agent
StopAll ==
    /\ \E agent \in Agents : ~stop_requested[agent]
    /\ stop_requested' = [agent \in Agents |-> TRUE]
    /\ UNCHANGED <<starting_cash, cash_reserve, agent_balances, agent_positions, positions,
                   pend, allocated, last, nops, budget, callVars, marketVars, vetoVars,
                   consensusVars, toolVars, swarmVars, quoteVars, execVars, run, futures,
                   trace>>

\* while iteration < max_iterations and self.should_continue(), with the stop
\* flag checked at the top of the iteration
Top(agent) ==
    /\ run[agent].pc = "top"
    /\ run' = [run EXCEPT ![agent].pc =
                   IF run[agent].iteration < MaxIterations /\ ShouldContinue(agent)
                          /\ ~StopObserved(agent)
                   THEN "fetch" ELSE "finish"]
    /\ trace' = [trace EXCEPT ![agent].slept = FALSE,
                              ![agent].observed = @ \/ StopObserved(agent)]
    /\ UNCHANGED futures
    /\ LoopFrame /\ NoBet

\* markets = self.get_active_markets(); without markets sleep and continue
Fetch(agent, outcome) ==
    /\ run[agent].pc = "fetch"
    /\ run' = [run EXCEPT ![agent].pc =
                              CASE outcome = "raise" -> AfterException("fetch")
                                [] outcome = "0" -> "top"
                                [] OTHER -> "market",
                          ![agent].n = MarketCount(outcome),
                          ![agent].idx = 1]
    /\ trace' = [trace EXCEPT ![agent].raised = IF outcome = "raise" THEN "fetch" ELSE "",
                              ![agent].slept = (outcome = "0"),
                              ![agent].late = @ \/ stop_requested[agent]]
    /\ UNCHANGED futures
    /\ LoopFrame /\ NoBet

\* for market in markets: the end of the list, or the checkpoint between two
\* markets (should_continue and the stop flag), or on to analyze_market
Market(agent) ==
    /\ run[agent].pc = "market"
    /\ run' = [run EXCEPT ![agent].pc =
                   IF run[agent].idx > run[agent].n THEN "round_end"
                   ELSE IF ~ShouldContinue(agent) \/ StopObserved(agent) THEN "round_end"
                   ELSE "analyze"]
    /\ trace' = [trace EXCEPT ![agent].slept = FALSE,
                              ![agent].observed =
                                  @ \/ (run[agent].idx <= run[agent].n /\ StopObserved(agent))]
    /\ UNCHANGED futures
    /\ LoopFrame /\ NoBet

\* decision = self.analyze_market(market)
Analyze(agent, outcome) ==
    /\ run[agent].pc = "analyze"
    /\ run' = [run EXCEPT ![agent].pc =
                              CASE outcome = "raise" -> AfterException("analyze")
                                [] outcome = "nothing" -> "market"
                                [] OTHER -> "bet",
                          ![agent].idx = IF outcome = "nothing" THEN @ + 1 ELSE @,
                          ![agent].decision =
                              IF outcome \in {"decision", "malformed"} THEN outcome ELSE ""]
    /\ trace' = [trace EXCEPT ![agent].raised = IF outcome = "raise" THEN "analyze" ELSE "",
                              ![agent].slept = FALSE,
                              ![agent].late = @ \/ stop_requested[agent]]
    /\ UNCHANGED futures
    /\ LoopFrame /\ NoBet

\* self.place_bet(decision['token_id'], ...); time.sleep(2): a decision that
\* lacks a key raises before place_bet is entered
Bet(agent, amount, outcome) ==
    LET done == PlaceBetOn(BetState, agent, amount, Some(HalfPrice), outcome)
        lacks == run[agent].decision = "malformed"
    IN
    /\ run[agent].pc = "bet"
    /\ run' = [run EXCEPT ![agent].pc = IF lacks THEN AfterException("bet") ELSE "market",
                          ![agent].idx = IF lacks THEN @ ELSE @ + 1,
                          ![agent].decision = ""]
    /\ trace' = [trace EXCEPT ![agent].raised = IF lacks THEN "bet" ELSE "",
                              ![agent].slept = ~lacks,
                              ![agent].late = @ \/ stop_requested[agent]]
    /\ IF lacks THEN NoBet
       ELSE /\ current_balance' = done.st.current_balance
            /\ trades_made' = done.st.trades_made
            /\ creds_error_emitted' = done.st.creds_error_emitted
            /\ creds_errors' = done.st.creds_errors
            /\ sink' = Min(done.st.sink, MaxOrders)
            /\ blast' = [op |-> "place_bet", seq |-> 0, agent |-> agent, amount |-> amount,
                         price |-> Some(HalfPrice), outcome |-> outcome,
                         reached |-> done.reached, posted |-> done.posted,
                         ret |-> done.ret, raised |-> FALSE]
    /\ UNCHANGED futures
    /\ LoopFrame

\* self.log_stats(); iteration += 1; the sleep between two rounds
RoundEnd(agent) ==
    /\ run[agent].pc = "round_end"
    /\ run' = [run EXCEPT ![agent].pc = "top", ![agent].iteration = @ + 1]
    /\ trace' = [trace EXCEPT ![agent].slept =
                     run[agent].iteration + 1 < MaxIterations /\ ShouldContinue(agent)]
    /\ UNCHANGED futures
    /\ LoopFrame /\ NoBet

\* except Exception as e: log the error, time.sleep(sleep_time)
Except(agent) ==
    /\ run[agent].pc = "except"
    /\ run' = [run EXCEPT ![agent].pc = "top"]
    /\ trace' = [trace EXCEPT ![agent].raised = "", ![agent].caught = TRUE,
                              ![agent].slept = TRUE]
    /\ UNCHANGED futures
    /\ LoopFrame /\ NoBet

\* return self.get_stats(), and in _run_agent: finally stop_event.set()
Finish(agent) ==
    /\ run[agent].pc = "finish"
    /\ run' = [run EXCEPT ![agent].pc = "done"]
    /\ futures' = [futures EXCEPT ![agent] = "set"]
    /\ UNCHANGED trace
    /\ LoopFrame /\ NoBet

\* one step of the worker that runs the loop of agent
Step(agent) ==
    \/ WorkerStart(agent)
    \/ Top(agent)
    \/ \E outcome \in FetchOutcomes : Fetch(agent, outcome)
    \/ Market(agent)
    \/ \E outcome \in AnalyzeOutcomes : Analyze(agent, outcome)
    \/ \E outcome \in {"success", "rejected"} : Bet(agent, 2 * Tol, outcome)
    \/ RoundEnd(agent)
    \/ Except(agent)
    \/ Finish(agent)

LoopInit ==
    /\ Constructed(MaxCash, MaxOps)
    /\ MarketConstructed
    /\ ArbitrationConstructed(TRUE)
    /\ ServicesConstructed

\* the runner starts and stops one agent; stop_all reaches every agent
LoopNext ==
    \/ StartAgent(TheAgent)
    \/ StopAgent(TheAgent)
    \/ StopAll
    \/ Step(TheAgent)

LoopSpec == LoopInit /\ [][LoopNext]_vars

\* every agent has a worker of the pool to itself, and a call that blocks
\* returns: the loop of a started agent keeps taking steps
LoopFairSpec == LoopSpec /\ WF_vars(Step(TheAgent))

\* the runner and its pool, every run taken as a whole
RunnerNext ==
    \/ \E agent \in Agents : StartAgent(agent)
    \/ \E agent \in Agents : StopAgent(agent)
    \/ StopAll
    \/ \E agent \in Agents : WorkerStart(agent)
    \/ \E agent \in Agents, raises \in BOOLEAN : RunAgent(agent, raises)

RunnerSpec == LoopInit /\ [][RunnerNext]_vars

\* ------------------------- _compute_mid_price of the service and of the agent

\* level prices of an order book, and the sides of a book: up to MaxLevels
\* levels in any order
LevelPrices == {2, 4, 6}
BookSides == UNION {[1..n -> LevelPrices] : n \in 0..MaxLevels}
Books == {[bids |-> bids, asks |-> asks] : bids \in BookSides, asks \in BookSides}

\* BaseAgent._top_price: the highest price of the bids, the lowest of the asks
AgentTopPrice(levels, side) ==
    IF levels = <<>> THEN None
    ELSE LET prices == Range(levels)
         IN  IF side = "bid"
             THEN Some(CHOOSE p \in prices : \A q \in prices : q <= p)
             ELSE Some(CHOOSE p \in prices : \A q \in prices : q >= p)

\* BaseAgent._compute_mid_price
AgentComputeMidPrice(orderbook) ==
    LET best_bid == AgentTopPrice(orderbook.bids, "bid")
        best_ask == AgentTopPrice(orderbook.asks, "ask")
    IN  IF best_bid = None /\ best_ask = None THEN None
        ELSE IF best_bid = None THEN best_ask
        ELSE IF best_ask = None THEN best_bid
        ELSE Some((best_bid[1] + best_ask[1]) \div 2)

\* the service derives the mid-price of a book
ServiceMidPrice(orderbook) ==
    /\ nops < budget
    /\ nops' = nops + 1
    /\ qlast' = [op |-> "service", orderbook |-> orderbook,
                 mid |-> ComputeMidPrice(orderbook)]
    /\ UNCHANGED <<starting_cash, cash_reserve, agent_balances, agent_positions, positions,
                   pend, allocated, last, budget, callVars, marketVars, vetoVars,
                   consensusVars, toolVars, execVars, swarmVars, loopVars>>

\* an agent derives the mid-price of a book
AgentMidPrice(orderbook) ==
    /\ nops < budget
    /\ nops' = nops + 1
    /\ qlast' = [op |-> "agent", orderbook |-> orderbook,
                 mid |-> AgentComputeMidPrice(orderbook)]
    /\ UNCHANGED <<starting_cash, cash_reserve, agent_balances, agent_positions, positions,
                   pend, allocated, last, budget, callVars, marketVars, vetoVars,
                   consensusVars, toolVars, execVars, swarmVars, loopVars>>

MidInit ==
    /\ Constructed(MaxCash, MaxOps)
    /\ MarketConstructed
    /\ ArbitrationConstructed(TRUE)
    /\ ServicesConstructed

MidNext ==
    \/ \E orderbook \in Books : ServiceMidPrice(orderbook)
    \/ \E orderbook \in Books : AgentMidPrice(orderbook)

MidSpec == MidInit /\ [][MidNext]_vars

\* -------------------------------------------------------------- properties

\* the side strings that are BUY, and those that are SELL, in any case
BuySides == {"BUY", "buy", "Buy"}
SellSides == {"SELL", "sell", "Sell"}

\* the balance an agent had before the last call, none counting as 0
PreBalance == IF last.agent \in DOMAIN last.pre.balances
              THEN last.pre.balances[last.agent] ELSE 0
\* the agent's holding of the traded token before the last call
PreHolding == last.pre.agent_positions[last.agent][last.token]
\* amount / price of the last call, for a price other than zero
LastShares == (last.amount * last.price[2]) \div last.price[1]

\* every account other than (agent, token) of the last call is as before it
OtherAccountsUnchanged ==
    /\ DOMAIN agent_balances = DOMAIN last.pre.balances
    /\ \A a \in DOMAIN agent_balances :
           a # last.agent => agent_balances[a] = last.pre.balances[a]
    /\ \A a \in Agents, t \in Tokens :
           (a # last.agent \/ t # last.token) =>
               agent_positions[a][t] = last.pre.agent_positions[a][t]

\* C1: under any interleaving of concurrent trade attempts against one registered
\* agent (validate_trade, then apply_trade if it succeeded, each under its own
\* acquisition of the lock), the balance and every share count stay >= 0.
C1_NeverNegative ==
    /\ \A a \in DOMAIN agent_balances : agent_balances[a] >= 0
    /\ \A a \in Agents, t \in Tokens : agent_positions[a][t] >= 0

\* C2: after any sequence of register_agent calls the amounts allocated to all
\* agents sum to at most the starting cash, and the treasury is never negative.
C2_AllocationsWithinTreasury ==
    /\ SumOver(allocated, DOMAIN allocated) <= starting_cash
    /\ cash_reserve >= 0

\* C2 witness: both agents registered, the second request cut down by the treasury
C2_Witness ==
    /\ DOMAIN allocated = Agents
    /\ last.op = "register"
    /\ last.agent \notin DOMAIN last.pre.balances
    /\ last.amount > last.pre.reserve
    /\ last.pre.reserve > 0
    /\ cash_reserve = 0

\* C3: a register_agent call with an already registered name returns the amount
\* the first call allocated, whatever was traded in between, and leaves the
\* treasury alone.
C3_RepeatedRegistrationReturnsAllocation ==
    (last.op = "register" /\ last.agent \in DOMAIN last.pre.balances) =>
        /\ last.ret = allocated[last.agent]
        /\ cash_reserve = last.pre.reserve

\* C4: for a name not yet registered and a request r >= 0, register_agent returns
\* min(r, treasury), sets the balance to it and debits the treasury by it.
C4_FreshRegistration ==
    (last.op = "register" /\ last.agent \notin DOMAIN last.pre.balances
        /\ last.amount >= 0) =>
        /\ last.ret = (IF last.amount <= last.pre.reserve
                       THEN last.amount ELSE last.pre.reserve)
        /\ last.agent \in DOMAIN agent_balances
        /\ agent_balances[last.agent] = last.ret
        /\ cash_reserve = last.pre.reserve - last.ret

\* C4 witness: a positive request against an exhausted treasury is allocated 0
C4_Witness ==
    /\ last.op = "register"
    /\ last.agent \notin DOMAIN last.pre.balances
    /\ last.amount > 0
    /\ last.pre.reserve = 0
    /\ starting_cash > 0
    /\ agent_balances[last.agent] = 0

\* C5: every apply_trade that changes the ledger is preceded by a validate_trade
\* of the same thread with the same five arguments that returned success: a thread
\* gets to the apply step only by a successful validation of exactly the arguments
\* it then applies, and a balance of an existing account changes only in the apply
\* step of such a thread.
C5_ApplyOnlyAfterValidate ==
    [][\A th \in Threads :
        /\ (pend[th] = <<>> /\ pend'[th] # <<>>) =>
              /\ last'.op = "validate"
              /\ last'.ok
              /\ pend'[th][1].validation.success
              /\ <<pend'[th][1].agent, pend'[th][1].token, pend'[th][1].side,
                   pend'[th][1].amount, pend'[th][1].price>>
                 = <<last'.agent, last'.token, last'.side, last'.amount, last'.price>>
        /\ (agent_balances' # agent_balances
                /\ DOMAIN agent_balances' = DOMAIN agent_balances) =>
              \E ap \in Threads :
                  /\ pend[ap] # <<>>
                  /\ pend'[ap] = <<>>
                  /\ last'.op = "apply"
                  /\ <<pend[ap][1].agent, pend[ap][1].token, pend[ap][1].side,
                       pend[ap][1].amount, pend[ap][1].price>>
                     = <<last'.agent, last'.token, last'.side, last'.amount, last'.price>>
       ]_vars

\* C5 witness: an apply_trade has changed the ledger
C5_Witness ==
    /\ last.op = "apply"
    /\ ~last.raised
    /\ last.amount > 0
    /\ agent_balances # last.pre.balances

\* C6: apply_trade of a SELL of amount a at a price p > 0, for an agent with an
\* account, adds exactly a to the balance and sets the holding of the token to
\* max(0, holding - a/p); every other account is unchanged.
C6_SellApplied ==
    (last.op = "apply" /\ ~last.raised /\ last.side \in SellSides
        /\ last.price[1] > 0) =>
        /\ agent_balances[last.agent] = PreBalance + last.amount
        /\ agent_positions[last.agent][last.token] =
               (IF PreHolding - LastShares >= 0 THEN PreHolding - LastShares ELSE 0)
        /\ OtherAccountsUnchanged

\* C6 witness: shares that the agent held have been sold
C6_Witness ==
    /\ last.op = "apply" /\ ~last.raised /\ last.side \in SellSides
    /\ last.price[1] > 0
    /\ last.amount > 0
    /\ PreHolding >= LastShares
    /\ agent_positions[last.agent][last.token] < PreHolding

\* C7: apply_trade of a BUY of amount a at a price p > 0, for an agent with an
\* account, takes exactly a from the balance and adds exactly a/p to the holding
\* of the token and to the aggregate of the token; the treasury and every other
\* account are unchanged.
C7_BuyApplied ==
    (last.op = "apply" /\ ~last.raised /\ last.side \in BuySides
        /\ last.price[1] > 0) =>
        /\ agent_balances[last.agent] = PreBalance - last.amount
        /\ agent_positions[last.agent][last.token] = PreHolding + LastShares
        /\ positions[last.token] = last.pre.positions[last.token] + LastShares
        /\ \A t \in Tokens : t # last.token => positions[t] = last.pre.positions[t]
        /\ cash_reserve = last.pre.reserve
        /\ OtherAccountsUnchanged

\* C7 witness: a BUY of a positive amount has been applied
C7_Witness ==
    /\ last.op = "apply" /\ ~last.raised /\ last.side \in BuySides
    /\ last.price[1] > 0
    /\ last.amount > 0
    /\ PreBalance >= last.amount
    /\ agent_positions[last.agent][last.token] > PreHolding

C9_SellRejectedExactly ==
    (last.op = "validate" /\ last.side \in SellSides) =>
        /\ last.price[1] # 0 => (~last.ok <=> LastShares > PreHolding + Tol)
        /\ (last.amount > 0 /\ PreHolding = 0) =>
               (~last.ok /\ last.msg = "Insufficient position to sell")

\* C10: validate_trade fails with the unknown-side reason for every side that is
\* neither BUY nor SELL, whatever the agent, amount and price; BUY and SELL are
\* recognised in any case.
C10_UnknownSideRejected ==
    (last.op = "validate") =>
        /\ last.side \notin (BuySides \cup SellSides) =>
               (~last.ok /\ last.msg = "Unknown side")
        /\ last.side \in (BuySides \cup SellSides) => last.msg # "Unknown side"

\* C10 witness: an unknown side is rejected although funds and holdings suffice
C10_Witness ==
    /\ last.op = "validate"
    /\ last.side \notin (BuySides \cup SellSides)
    /\ ~last.ok
    /\ last.amount > 0
    /\ PreBalance >= last.amount
    /\ PreHolding >= last.amount

\* a price strictly between 0 and 1, the range of a prediction-market price
PriceInRange(price) == 0 < price[1] /\ price[1] < price[2]

\* C11: a trade whose price is out of range (zero or missing, negative, >= 1) is
\* rejected by validate_trade with a named reason, for BUY and for SELL, and is
\* never applied to the ledger.
C11_OutOfRangePriceRejected ==
    /\ (last.op = "validate" /\ last.side \in (BuySides \cup SellSides)
            /\ ~PriceInRange(last.price)) =>
           (~last.ok /\ last.msg # "")
    /\ (last.op = "apply" /\ ~last.raised) => PriceInRange(last.price)

\* the threads whose apply_trade call has returned
Returned == {th \in Threads : pc[th] = "done"}

\* the ledgers that the calls of the threads in D, run one after the other in
\* some order, make of the ledger l
RECURSIVE Serial(_, _)
Serial(l, D) ==
    IF D = {} THEN {l}
    ELSE UNION {Serial(Applied(l, call[th]), D \ {th}) : th \in D}

\* C12: once the concurrent apply_trade calls have all returned, the balances,
\* the holdings and the aggregates are those that the same calls produce when
\* run one after the other in some order: no update of one call is lost to or
\* interleaved with another.
C12_ApplySerializable ==
    (Returned # {} /\ \A th \in Threads : pc[th] \in {"idle", "done"}) =>
        LedgerOf(agent_balances, agent_positions, positions) \in Serial(base, Returned)

\* C12 witness: two concurrent BUYs of the same agent and token have returned
\* and the holding carries the shares of both
C12_Witness ==
    /\ Returned = Threads
    /\ \A th \in Threads :
           /\ call[th].agent = call[1].agent
           /\ call[th].token = call[1].token
           /\ Upper(call[th].side) = "BUY"
           /\ call[th].amount > 0
    /\ call[1].agent \in DOMAIN base.balances
    /\ agent_positions[call[1].agent][call[1].token] =
           base.agent_positions[call[1].agent][call[1].token]
               + Shares(call[1].amount, call[1].price)
               + Shares(call[2].amount, call[2].price)

\* C13: reconcile_positions merges additively: for every instrument supplied with
\* q > 0 the agent's holding afterwards is its holding before plus q, and the
\* holding of an instrument supplied with q <= 0 or not supplied is unchanged; no
\* holding decreases.
C13_ReconcileAdds ==
    (last.op = "reconcile") =>
        \A t \in Tokens :
            agent_positions[last.agent][t] =
                last.pre.agent_positions[last.agent][t]
                    + (IF last.snapshot[t] > 0 THEN last.snapshot[t] ELSE 0)

\* C14: the reference scenario, step by step.  With 5 dollars left in the
\* treasury a request for 10 allocates 5; with the balance at 5 a BUY of 6 fails
\* validation for insufficient funds and a BUY of 3 passes; applied at 0.30 it
\* gives 10 shares and the balance 2; with 10 shares held a SELL of 3.30 at 0.30
\* (11 shares) fails validation and a SELL of 3.00 passes; applied it gives the
\* balance 5 and 0 shares.
C14_ReferenceScenario ==
    /\ (last.op = "register" /\ last.agent \notin DOMAIN last.pre.balances
            /\ last.pre.reserve = 5 * Dollar /\ last.amount = 10 * Dollar) =>
           (last.ret = 5 * Dollar /\ agent_balances[last.agent] = 5 * Dollar)
    /\ (last.op = "validate" /\ last.side = "BUY" /\ PreBalance = 5 * Dollar) =>
           /\ last.amount = 6 * Dollar =>
                  (~last.ok /\ last.msg = "Insufficient allocated funds")
           /\ last.amount = 3 * Dollar => last.ok
    /\ (last.op = "apply" /\ last.side = "BUY" /\ last.amount = 3 * Dollar
            /\ last.price = ScenarioPrice
            /\ PreBalance = 5 * Dollar /\ PreHolding = 0) =>
           /\ agent_positions[last.agent][last.token] = 10 * Dollar
           /\ agent_balances[last.agent] = 2 * Dollar
           /\ last.ret = 2 * Dollar
    /\ (last.op = "validate" /\ last.side = "SELL" /\ last.price = ScenarioPrice
            /\ PreHolding = 10 * Dollar) =>
           /\ last.amount = (33 * Dollar) \div 10 =>
                  (~last.ok /\ last.msg = "Insufficient position to sell")
           /\ last.amount = 3 * Dollar => last.ok
    /\ (last.op = "apply" /\ last.side = "SELL" /\ last.amount = 3 * Dollar
            /\ last.price = ScenarioPrice
            /\ PreBalance = 2 * Dollar /\ PreHolding = 10 * Dollar) =>
           /\ agent_balances[last.agent] = 5 * Dollar
           /\ agent_positions[last.agent][last.token] = 0
           /\ last.ret = 5 * Dollar

\* C14 witness: the last step of the scenario, after the registration and the
\* four proposals: the 10 shares bought for 3 dollars are sold for 3 dollars
C14_Witness ==
    /\ nops = ScenarioOps
    /\ allocated = (ScenarioAgent :> 5 * Dollar)
    /\ cash_reserve = 0
    /\ last.op = "apply" /\ last.side = "SELL" /\ last.amount = 3 * Dollar
    /\ PreBalance = 2 * Dollar /\ PreHolding = 10 * Dollar
    /\ agent_balances[ScenarioAgent] = 5 * Dollar
    /\ agent_positions[ScenarioAgent][ScenarioToken] = 0

\* the token's entry of the price cache before the last call was there and stale
StalePrice ==
    /\ mlast.token \in DOMAIN mlast.pre.token_price_cache
    /\ mlast.at - mlast.pre.token_price_cache[mlast.token].timestamp > CacheTtl

\* the provider failed the request for the book of token t in the last call
FetchFailed(t) == mlast.answers[t].kind \in {"error", "empty"}

\* the entry of token t is the same in the caches c and d, or absent from both
SameEntry(c, d, t) ==
    /\ t \in DOMAIN c <=> t \in DOMAIN d
    /\ t \in DOMAIN c => c[t] = d[t]

C16_AtMostOneFetch ==
    (mlast.op = "price" /\ StalePrice) =>
        /\ mlast.fetches[mlast.token] <= 1
        /\ \A t \in Tokens : t # mlast.token => mlast.fetches[t] = 0

\* C16 witness: the cached price and the cached book are both stale, the
\* request fails, and it was the only one
C16_Witness ==
    /\ mlast.op = "price" /\ StalePrice
    /\ mlast.token \in DOMAIN mlast.pre.orderbook_cache
    /\ mlast.answers[mlast.token].kind = "error"
    /\ mlast.fetches[mlast.token] = 1

\* C17: a get_market_price call that finds no cached price within the TTL and
\* whose provider request fails returns None: it does not raise and returns no
\* other value.
C17_FailedFetchReturnsNone ==
    (mlast.op = "price" /\ ~Fresh(mlast.pre.token_price_cache, mlast.token, mlast.at)
        /\ FetchFailed(mlast.token)) =>
        (mlast.ret = None /\ ~mlast.raised)

\* C17 witness: no price was ever cached, the request fails, None is returned
C17_Witness ==
    /\ mlast.op = "price"
    /\ mlast.token \notin DOMAIN mlast.pre.token_price_cache
    /\ mlast.answers[mlast.token].kind = "error"
    /\ mlast.fetches[mlast.token] = 1
    /\ mlast.ret = None

\* C18: a failed provider request never removes or alters a cache entry: after a
\* get_market_price or get_active_markets call the order-book entry and the price
\* entry of every instrument whose request failed are what they were before the
\* call, and a failed listing request leaves both caches as they were.
C18_FailureKeepsCaches ==
    (mlast.op \in {"price", "markets"}) =>
        /\ \A t \in Tokens : FetchFailed(t) =>
               /\ SameEntry(orderbook_cache, mlast.pre.orderbook_cache, t)
               /\ SameEntry(token_price_cache, mlast.pre.token_price_cache, t)
        /\ ~mlast.listing_ok =>
               /\ orderbook_cache = mlast.pre.orderbook_cache
               /\ token_price_cache = mlast.pre.token_price_cache

\* C18 witness: both caches held a stale entry of the instrument, the request
\* failed, and both entries are still there
C18_Witness ==
    /\ mlast.op = "price"
    /\ mlast.answers[mlast.token].kind = "error"
    /\ mlast.token \in DOMAIN mlast.pre.orderbook_cache
    /\ mlast.token \in DOMAIN mlast.pre.token_price_cache
    /\ mlast.token \in DOMAIN orderbook_cache
    /\ mlast.token \in DOMAIN token_price_cache

\* C19 as claimed: once a value has been fetched, a caller that comes after the
\* TTL and whose refetch fails is served the last fetched value: get_market_price
\* returns the price cached last, get_active_markets the markets listed last.
C19_StaleValueServed ==
    /\ (mlast.op = "price" /\ StalePrice /\ FetchFailed(mlast.token)) =>
           mlast.ret = Some(mlast.pre.token_price_cache[mlast.token].price)
    /\ (mlast.op = "markets" /\ ~mlast.listing_ok /\ mlast.pre.listed # <<>>) =>
           mlast.markets = mlast.pre.listed

\* C19 as amended: once a value has been fetched, a caller that comes after the
\* TTL and whose refetch fails is served nothing: get_market_price returns None
\* while the price cached last stays in the cache, and get_active_markets
\* returns the empty list.
C19_StaleValueKeptNotServed ==
    /\ (mlast.op = "price" /\ StalePrice /\ FetchFailed(mlast.token)) =>
           /\ mlast.ret = None
           /\ SameEntry(token_price_cache, mlast.pre.token_price_cache, mlast.token)
    /\ (mlast.op = "markets" /\ ~mlast.listing_ok) => mlast.markets = <<>>

\* C19 witness: a price was cached, its TTL has passed, the refetch fails and
\* the caller gets None
C19_Witness ==
    /\ mlast.op = "price" /\ StalePrice
    /\ mlast.answers[mlast.token].kind = "error"
    /\ mlast.ret = None
    /\ mlast.token \in DOMAIN token_price_cache

\* C20: in the veto stage, a SELL proposal on an instrument of which the agent
\* holds zero shares is vetoed, and no advisory model is invoked for it.
C20_SellWithoutSharesVetoed ==
    (vlast.op = "veto" /\ vlast.proposal.side = "SELL"
        /\ vlast.pre[vlast.agent][vlast.proposal.token] = 0) =>
        (vlast.decision = "veto" /\ vlast.calls = 0)

\* C20 witness: with a model configured, an agent that holds shares of one
\* instrument proposes to sell the other, and is vetoed without a model call
C20_Witness ==
    /\ advisor
    /\ vlast.op = "veto" /\ vlast.proposal.side = "SELL"
    /\ vlast.pre[vlast.agent][vlast.proposal.token] = 0
    /\ \E t \in Tokens : vlast.pre[vlast.agent][t] > 0
    /\ vlast.decision = "veto"
    /\ vlast.calls = 0

\* the last result of the consensus stage is the fallback signal, an approved
\* proposal, a veto
IsFallback == clast.ret # None /\ FALLBACK_FLAG \in DOMAIN clast.ret[1]
IsApproved == clast.ret # None /\ FALLBACK_FLAG \notin DOMAIN clast.ret[1]
IsVeto == clast.ret = None

\* the coordinator was asked in the last call
CoordinatorAsked == clast.op = "decide" /\ clast.polled # <<>>

\* C21: when the coordinator call raises or returns nothing, or its response
\* holds no JSON object, collaborative_decision returns the fallback signal,
\* not an approved proposal and not a veto, whatever the specialists answered.
C21_CoordinatorFailureFallsBack ==
    (CoordinatorAsked /\ clast.coordinator.kind \in {"raise", "nothing", "text", "broken"}) =>
        (IsFallback /\ ~IsApproved /\ ~IsVeto /\ clast.ret[1] = (FALLBACK_FLAG :> TRUE))

\* C21 witness: both specialists said EXECUTE, the coordinator call raised, and
\* the stage returned the fallback signal
C21_Witness ==
    /\ CoordinatorAsked
    /\ clast.coordinator.kind = "raise"
    /\ Len(clast.reports) = Len(SpecialistModels)
    /\ \A i \in 1..Len(clast.reports) : clast.reports[i].action = "EXECUTE"
    /\ IsFallback

\* C22: every result is exactly one of an approved proposal, a veto
\* and the fallback signal; a proposal is approved only when the coordinator
\* answered EXECUTE, and the fallback signal is returned only when the
\* coordinator's answer is missing or cannot be parsed.
C22_ThreeOutcomes ==
    (clast.op = "decide") =>
        /\ (IF IsApproved THEN 1 ELSE 0) + (IF IsVeto THEN 1 ELSE 0)
               + (IF IsFallback THEN 1 ELSE 0) = 1
        /\ IsApproved =>
               (clast.coordinator.kind = "object"
                    /\ UpperAction(clast.coordinator.action) = "EXECUTE")
        /\ IsFallback => clast.coordinator.kind \in {"raise", "nothing", "text", "broken"}

\* C23: the cash amount of a proposal approved by the consensus stage is never
\* negative, whatever amount the coordinator gave: an amount below zero becomes 0.
C23_ApprovedAmountNotNegative ==
    (clast.op = "decide" /\ IsApproved) =>
        /\ clast.ret[1].amount >= 0
        /\ (clast.coordinator.amount.kind = "number"
                /\ clast.coordinator.amount.value < 0) => clast.ret[1].amount = 0

\* C23 witness: the coordinator approved with a negative amount and the
\* approved proposal carries the amount 0
C23_Witness ==
    /\ clast.op = "decide" /\ IsApproved
    /\ clast.coordinator.amount.kind = "number"
    /\ clast.coordinator.amount.value < 0
    /\ clast.proposal.amount > 0
    /\ clast.ret[1].amount = 0

\* C24: evaluate_all returns exactly one entry per registered tool; a tool whose
\* generator raised or returned nothing is mapped to none, and every other
\* registered tool is still evaluated and has its result reported.
C24_OneEntryPerTool ==
    (tlast.op = "evaluate_all") =>
        /\ DOMAIN tlast.results = Range(tlast.registered)
        /\ Range(tlast.evaluated) = Range(tlast.registered)
        /\ Len(tlast.evaluated) = Len(tlast.registered)
        /\ \A name \in Range(tlast.registered) :
               IF tlast.outcomes[name].kind \in {"raise", "nothing"}
               THEN tlast.results[name] = None
               ELSE /\ tlast.results[name] # None
                    /\ tlast.results[name][1].side = tlast.outcomes[name].side

\* C24 witness: of three registered tools the first raised, the second
\* returned nothing, and the third is reported with its result
C24_Witness ==
    /\ tlast.op = "evaluate_all"
    /\ Len(tlast.registered) = 3
    /\ tlast.outcomes[tlast.registered[1]].kind = "raise"
    /\ tlast.outcomes[tlast.registered[2]].kind = "nothing"
    /\ tlast.results[tlast.registered[1]] = None
    /\ tlast.results[tlast.registered[3]] # None

\* the last call was an order submission made without credentials
SubmittedWithoutCredentials ==
    \/ blast.op = "place_bet" /\ ~trading_enabled[blast.agent]
    \/ blast.op = "place_order" /\ ~execution.trading_enabled

\* C25: with the credentials missing, every order submission returns failure
\* without contacting the order sink, and the process has logged the
\* missing-credentials error exactly once, however many submissions were made.
C25_CredsErrorLoggedOnce ==
    SubmittedWithoutCredentials =>
        /\ ~blast.ret /\ ~blast.raised
        /\ ~blast.posted /\ sink = 0
        /\ creds_errors = 1

\* a step that is a call of place_bet
BetStep == blast'.seq # blast.seq /\ blast'.op = "place_bet"

\* C26: when the order sink rejects the order of a trade attempt or the
\* submission raises, the attempt reports failure and leaves the agent's
\* balance, trade count and positions as they were; a balance changes only in
\* an attempt whose order the sink accepted.
C26_FailedSubmissionChangesNothing ==
    [][/\ (BetStep /\ blast'.reached /\ blast'.outcome # "success") =>
              /\ ~blast'.ret
              /\ current_balance' = current_balance
              /\ trades_made' = trades_made
              /\ agent_positions' = agent_positions
              /\ positions' = positions
       /\ (current_balance' # current_balance \/ trades_made' # trades_made) =>
              (BetStep /\ blast'.posted /\ blast'.outcome = "success" /\ blast'.ret)]_vars

\* C26 witness: the sink was reached and rejected the order of an agent that
\* had traded before, and the attempt returned failure
C26_Witness ==
    /\ blast.op = "place_bet"
    /\ blast.posted /\ blast.outcome = "rejected" /\ ~blast.ret
    /\ trades_made[blast.agent] = 1
    /\ current_balance[blast.agent] = InitialBalance * Tol - 2 * Tol

\* the proposals of the last round that execute_proposals does not skip
CompleteProposals == {i \in 1..Len(slast.proposals) : Complete(slast.proposals[i])}

\* C27: execute_proposals attempts the combined proposals of a round in
\* non-increasing order of their cash amount: none is attempted before another
\* of the same round with a strictly larger amount; and all of them that name
\* an amount are attempted.
C27_LargestAmountFirst ==
    (slast.op = "execute_proposals") =>
        /\ \A i, j \in 1..Len(slast.attempted) :
               i < j => slast.attempted[i].amount >= slast.attempted[j].amount
        /\ Len(slast.attempted) = Cardinality(CompleteProposals)
        /\ \A p \in Proposals :
               Cardinality({i \in 1..Len(slast.attempted) : slast.attempted[i] = p})
                   = Cardinality({i \in CompleteProposals : slast.proposals[i] = p})

\* C27 witness: the proposals of two agents came in increasing order of amount
\* and were all attempted
C27_Witness ==
    /\ slast.op = "execute_proposals"
    /\ Len(slast.proposals) = 3 /\ Len(slast.attempted) = 3
    /\ slast.proposals[1].amount < slast.proposals[2].amount
    /\ slast.proposals[1].agent # slast.proposals[2].agent
    /\ slast.attempted[1].amount > slast.attempted[3].amount

\* C28: an exception raised in an iteration of the loop of an agent by the
\* market fetch, the proposal generator or the order placement does not end
\* the loop: the handler of the loop catches it, the agent sleeps, and the loop
\* is back at the top of an iteration, the run still going.
C28_ExceptionKeepsLoop ==
    [][\A agent \in Agents :
          /\ (trace[agent].raised = "" /\ trace'[agent].raised # "") =>
                 /\ run'[agent].pc = "except"
                 /\ futures'[agent] = "clear"
          /\ (run[agent].pc = "except" /\ run'[agent] # run[agent]) =>
                 /\ run'[agent].pc = "top"
                 /\ run'[agent].iteration = run[agent].iteration
                 /\ trace'[agent].slept
                 /\ futures'[agent] = "clear"
          /\ run'[agent].pc # "crashed"]_vars

\* C28 witness: an exception was caught after the agent had made a trade, and
\* the loop has passed the top of a further iteration and stands at the fetch
C28_Witness ==
    \E agent \in Agents :
        /\ trace[agent].caught
        /\ trades_made[agent] = 1
        /\ run[agent].pc = "fetch"
        /\ futures[agent] = "clear"

BestBid == CHOOSE p \in Range(qlast.orderbook.bids) : \A q \in Range(qlast.orderbook.bids) : q <= p
BestAsk == CHOOSE p \in Range(qlast.orderbook.asks) : \A q \in Range(qlast.orderbook.asks) : q >= p

\* C30: for every order book, its levels in any order, the derived mid-price is
\* the mean of the highest bid and the lowest ask when both sides are there,
\* the best price of the one side that is there when the other is not, and no
\* price only when both are missing.
C30_MidOfBestLevels ==
    (qlast.op \in {"service", "agent"}) =>
        LET bids == qlast.orderbook.bids
            asks == qlast.orderbook.asks
        IN  /\ (bids # <<>> /\ asks # <<>>) => qlast.mid = Some((BestBid + BestAsk) \div 2)
            /\ (bids # <<>> /\ asks = <<>>) => qlast.mid = Some(BestBid)
            /\ (bids = <<>> /\ asks # <<>>) => qlast.mid = Some(BestAsk)
            /\ (qlast.mid = None) <=> (bids = <<>> /\ asks = <<>>)

\* C31: in every reachable state and for every instrument, the aggregate total
\* of the ledger equals the sum of the agents' holdings of that instrument,
\* after any applications of BUY and SELL and any reconcile_positions calls,
\* the same snapshot reconciled twice included.
C31_AggregateIsSum ==
    \A t \in Tokens :
        positions[t] = SumOver([a \in Agents |-> agent_positions[a][t]], Agents)

\* C32: after any sequential history of register, reconcile and trades in which
\* every apply_trade comes right after a successful validate_trade of the same
\* arguments, every balance and every share count is at least 0, for every
\* side, every amount (zero and negative included) and every price (zero
\* included).
C32_SequentialNonNegative ==
    /\ \A a \in DOMAIN agent_balances : agent_balances[a] >= 0
    /\ \A a \in Agents, t \in Tokens : agent_positions[a][t] >= 0
    /\ \A t \in Tokens : positions[t] >= 0

\* the specialists whose reply of the last call parsed into an opinion, in the
\* order of the configured list
RECURSIVE Answered(_)
Answered(models) ==
    IF models = <<>> THEN <<>>
    ELSE IF clast.replies[Head(models)].kind = "object"
         THEN <<Head(models)>> \o Answered(Tail(models))
         ELSE Answered(Tail(models))

\* C33: whichever specialists fail (their call raises or their reply does not
\* parse), collaborative_decision polls every configured specialist in the
\* order of the list and then calls the coordinator once, handing it the
\* opinions of exactly the specialists that answered; the outcome is the
\* coordinator's: no failure of a specialist makes a fallback, a veto or an
\* approval.
C33_SpecialistFailureOmitted ==
    CoordinatorAsked =>
        /\ clast.polled = SpecialistModels \o <<CoordinatorModel>>
        /\ Len(clast.reports) = Len(Answered(SpecialistModels))
        /\ \A i \in 1..Len(clast.reports) :
               /\ clast.reports[i].model = Answered(SpecialistModels)[i]
               /\ clast.reports[i].action
                      = UpperAction(clast.replies[clast.reports[i].model].action)
        /\ IsApproved <=> (clast.coordinator.kind = "object"
                              /\ UpperAction(clast.coordinator.action) = "EXECUTE")
        /\ IsFallback <=> (clast.coordinator.kind # "object")
        /\ IsVeto <=> (clast.coordinator.kind = "object"
                          /\ UpperAction(clast.coordinator.action) # "EXECUTE")

\* C33 witness: the call of the first specialist raised, the second answered
\* SKIP, the coordinator got the one opinion and approved
C33_Witness ==
    /\ CoordinatorAsked
    /\ clast.replies["s1"].kind = "raise"
    /\ Len(clast.reports) = 1
    /\ clast.reports[1].model = "s2" /\ clast.reports[1].action = "SKIP"
    /\ IsApproved


\* C34: the consensus stage never returns an approved proposal whose direction
\* is SELL for an instrument of which the agent holds zero shares, whatever
\* direction was proposed and whatever the coordinator answers.
C34_NoSellWithoutShares ==
    (clast.op = "decide" /\ IsApproved /\ clast.ret[1].side = "SELL") =>
        clast.available_shares > 0


\* C35: across any sequence of place_bet calls an order reaches the sink only
\* if trading is enabled, the amount is positive and the amount is at most the
\* agent's balance before the call; the local balance is never negative.
C35_SubmittedOnlyWithinBalance ==
    [][BetStep =>
          /\ blast'.posted =>
                 /\ trading_enabled[blast'.agent]
                 /\ blast'.amount > 0
                 /\ blast'.amount <= current_balance[blast'.agent]
          /\ \A a \in Agents : current_balance'[a] >= 0]_vars

\* C35 witness: a second accepted bet took the rest of the balance
C35_Witness ==
    /\ blast.op = "place_bet" /\ blast.posted /\ blast.ret
    /\ trades_made[blast.agent] = 2
    /\ current_balance[blast.agent] = 0


\* C36: every started run loop terminates, whatever the market provider
\* returns: a run that has been started (its event is clear) is eventually
\* finished (its event is set).
C36_RunTerminates ==
    \A agent \in Agents : (futures[agent] = "clear") ~> (futures[agent] = "set")


\* C37: the runner runs at most one loop per agent: start_agent on an agent
\* whose run has not finished changes neither the loops nor the events; the
\* loops that hold a worker never exceed the size of the pool, and an agent
\* that waits for a worker finds one free; is_running(agent) holds exactly
\* from the start of the agent until its run has returned or raised.
C37_OneLoopPerAgent ==
    [][/\ \A agent \in Agents :
              (IsRunning(agent) /\ trace'[agent].refused /\ ~trace[agent].refused) =>
                  (run' = run /\ futures' = futures)
       /\ Cardinality(Busy') <= PoolSize
       /\ \A agent \in Agents :
              /\ run'[agent].pc = "queued" => Cardinality(Busy') < PoolSize
              /\ IsRunning(agent)' <=> run'[agent].pc \notin {"idle", "done"}]_vars

\* C37 witness: one agent holds a worker and was started again to no effect,
\* the other has been started and its run has not been taken by a worker yet
C37_Witness ==
    \E a, b \in Agents :
        /\ a # b
        /\ run[a].pc = "top" /\ trace[a].refused /\ IsRunning(a)
        /\ run[b].pc = "queued" /\ IsRunning(b)


\* the attempts of the last round that the agent made and the sink accepted
ExecutedBy(agent) ==
    {i \in 1..Len(slast.attempted) : slast.attempted[i].agent = agent /\ slast.placed[i]}

\* C38: within one round of the swarm and for each agent, the cash amounts of
\* the agent's executed proposals add up to no more than the balance the agent
\* had at the start of the round, and its balance is never negative during the
\* dispatch.
C38_RoundWithinStartBalance ==
    (slast.op = "execute_proposals") =>
        \A agent \in Agents :
            /\ SumOver([i \in ExecutedBy(agent) |-> slast.attempted[i].amount],
                       ExecutedBy(agent)) <= slast.balance[agent]
            /\ slast.low[agent] >= 0
            /\ current_balance[agent] >= 0

\* C38 witness: three proposals of one agent, each within the balance of the
\* start of the round and together above it; the first was executed and the
\* next was refused for the balance that was left
C38_Witness ==
    /\ slast.op = "execute_proposals"
    /\ Len(slast.attempted) = 3
    /\ \A i \in 1..3 :
           /\ slast.attempted[i].agent = TheAgent
           /\ slast.attempted[i].amount = 2 * Tol
           /\ slast.attempted[i].amount <= slast.balance[TheAgent]
           /\ slast.attempted[i].outcome = "success"
    /\ slast.placed = <<TRUE, FALSE, FALSE>>
    /\ current_balance[TheAgent] = Tol


\* C39: when two agents are inside get_tool_signals at the same time, each
\* caller receives the signal that the tool's generator computes from that
\* caller's own market and balance.
C39_SignalFromOwnBalance ==
    \A c \in Agents :
        evaluating[c].returned =>
            evaluating[c].result =
                Signal(AnalyzeMarket(evaluating[c].market, evaluating[c].balance),
                       evaluating[c].balance)


\* C40: an exception raised while one agent evaluates a market or executes a
\* proposal in a round does not end the swarm loop: the proposals of the other
\* agents of that round are still dispatched, and the loop is still running
\* for its following rounds.
C40_ExceptionKeepsSwarmLoop ==
    /\ swarm.status # "crashed"
    /\ swarm.raised # {} => (swarm.proposing \ swarm.raised) \subseteq swarm.dispatched

====
